---- MODULE Spec2Model ----
(***************************************************************************)
(* A model of the z-stream broadcaster: the pre-rolling input switcher     *)
(* (stream/input_pipeline.rs), the randomized file producer                *)
(* (random_files.rs, finder.rs), the media probe (media_info.rs) and the   *)
(* two feeder tasks (stream/feeder.rs, stream/streame_queue.rs), one input *)
(* assembly (stream/input_bin.rs), the transcoding pipeline                *)
(* (streamer/new_pipeline.rs), the RTSP media factory                      *)
(* (stream/media_factory.rs) and the control endpoint (api.rs).            *)
(*                                                                         *)
(* Each component has its own next-state relation and specification over   *)
(* the shared variable tuple; a component's actions leave the variables of *)
(* the other components unchanged.                                         *)
(***************************************************************************)
EXTENDS Integers, Sequences, FiniteSets, TLC

(***************************************************************************)
(* Bounds of the model.                                                    *)
(***************************************************************************)
\* pre_roll_count passed to InputPipeline::new; the pipeline owns
\* pre_roll_count + 1 slots.
PreRollCount == 1
\* number of commands that may be queued on the command channel at once
MaxCommands == 2
\* number of messages that may be queued on the pipeline bus at once
MaxBus == 1

(***************************************************************************)
(* Switcher core: InputPipeline                                            *)
(***************************************************************************)
VARIABLES
    input_bins,            \* Vec<InputBinItem>: slot -> [state, pre_rolled]
    active_bin,            \* index of the active slot
    video_input_selector,  \* [active_pad, state]: active-pad names the slot whose sink pad is selected
    audio_input_selector,  \* [active_pad, state]
    commands,              \* command channel (FIFO) read by play
    bus,                   \* pipeline bus (FIFO) read by play
    play_pc,               \* position of play: "new", "recv", "bus", "aborted", "failed"
    skip_window,           \* history of the Skip arm of play: stale is the number of
                           \* queued Skips that were already queued when a Skip last
                           \* ended an item, transitions the number of item
                           \* transitions made by that Skip and by the stale ones
    play_history           \* history of play: item_ended tells that an item has
                           \* ended (Skip, or Eos or Error of the active slot),
                           \* rebind_failed that switch_bin_uri returned an error

switcherVars == <<input_bins, active_bin, video_input_selector, audio_input_selector,
                  commands, bus, play_pc, skip_window, play_history>>

\* Random file producer: RandomFiles, walk, start_finder_thread
VARIABLES
    root_dirs,      \* RandomFiles.root_dirs: each root as the files its walk yields, in order
    probe,          \* what MediaInfo::detect makes of each file: "playable", "empty", "error"
    files,          \* RandomFiles.files: the catalog, a Vec behind a mutex
    file_notify,    \* RandomFiles.file_notify_rx: [open, queued]
    walk_pc,        \* the thread walk spawns: "idle", "running", "done"
    workers,        \* the thread of each root: [pc, pos]
    finder_pc,      \* position of the finder thread
    info_map,       \* the finder's cache: path -> "none", "playable", "empty"
    selected,       \* the path next_if returned to the finder
    source_chan,    \* the Sources sent and not yet received
    receiver_alive, \* the receiving end of the Source channel exists
    epoch_emitted,  \* the paths next_if returned since walk was last called
    caller,         \* who draws from RandomFiles: "finder" (next_if) or "iter" (Iterator::next)
    epoch           \* the number of times walk was called, counted up to MaxEpochs

producerVars == <<root_dirs, probe, files, file_notify, walk_pc, workers, finder_pc,
                  info_map, selected, source_chan, receiver_alive, epoch_emitted,
                  caller, epoch>>

\* The feeder tasks: file_feeder_task (feeder.rs) and stream_queue_task
\* (streame_queue.rs).  One of the two feeds the output appsrcs.
VARIABLES
    events,            \* the events given to event_tx.try_send, in order
    task_commands,     \* number of Skip commands waiting in the task's command_rx
    feeder_pc,         \* position of file_feeder_task
    feeder_path,       \* path: the path received from file_rx
    feeder_discovery,  \* the result the discoverer reported for path ("none": not run)
    feeder_detect,     \* what MediaInfo::detect returned: "Ok", "Err" ("none": not called)
    feeder_info,       \* media_info
    feeder_type,       \* media_type
    feeder_pipeline,   \* state of the item's pipeline: "none", "Null", "Playing"
    abort_chan,        \* number of tokens in the abort channel (capacity 1)
    skip_thread_pc,    \* the command thread of the feeder: "recv", "send"
    timer_armed,       \* the timer thread of the current image item is asleep
    timers_sending,    \* timer threads that passed their check and are at abort_tx.send
    appsrc_eos,        \* end_of_stream was sent to the output appsrcs
    abort_from,        \* history: who sent the token in the abort channel
    queue_pc,          \* position of stream_queue_task
    queue_item,        \* stream_item.path
    samples,           \* samples still to come on stream_item.video / .audio
    push_pc,           \* position of the two push_buffers threads
    push_data,         \* push_video / push_audio
    abort,             \* the abort flag of stream_queue_task
    abort_of           \* history: when the Skip that set abort was received

feederVars == <<feeder_pc, feeder_path, feeder_discovery, feeder_detect, feeder_info,
                feeder_type, feeder_pipeline, abort_chan, skip_thread_pc, timer_armed,
                timers_sending, appsrc_eos, abort_from>>
queueVars == <<queue_pc, queue_item, samples, push_pc, push_data, abort, abort_of>>
streamVars == <<events, task_commands, feederVars, queueVars>>

\* One input assembly: InputBin (stream/input_bin.rs)
VARIABLES
    input_bin          \* the elements of one InputBin and their links, as a record

\* One transcoding pipeline: FilePipeline (streamer/new_pipeline.rs)
VARIABLES
    file_pipeline      \* the media info it is built for and what was built, as a record

\* The RTSP media factory and the control endpoint (stream/media_factory.rs, api.rs)
VARIABLES
    server             \* the appsrc storage, its readers and the endpoint, as a record

\* The transcoder that plays one file after the other: Pipeline (streamer.rs)
VARIABLES
    streamer           \* transcode_files and the pipeline it drives, as a record

\* What the bus of InputPipeline cannot tell: which file a message is of
VARIABLES
    recycle            \* history of the files bound to the slots, as a record

\* One call of RandomFiles::multi_if (random_files.rs)
VARIABLES
    multi              \* the catalog, the locals of the call and where it is, as a record

vars == <<switcherVars, producerVars, streamVars, input_bin, file_pipeline, server, streamer,
          recycle, multi>>

\* What the steps of one component leave alone.
SwitcherOnly == UNCHANGED <<producerVars, streamVars, input_bin, file_pipeline, server, streamer, recycle, multi>>
ProducerOnly == UNCHANGED <<switcherVars, streamVars, input_bin, file_pipeline, server, streamer, recycle, multi>>
FeederOnly == UNCHANGED <<switcherVars, producerVars, queueVars, input_bin, file_pipeline, server, streamer, recycle, multi>>
QueueOnly == UNCHANGED <<switcherVars, producerVars, feederVars, input_bin, file_pipeline, server, streamer, recycle, multi>>
InputBinOnly == UNCHANGED <<switcherVars, producerVars, streamVars, file_pipeline, server, streamer, recycle, multi>>
FilePipelineOnly ==
    UNCHANGED <<switcherVars, producerVars, streamVars, input_bin, server, streamer, recycle, multi>>
ServerOnly ==
    UNCHANGED <<switcherVars, producerVars, streamVars, input_bin, file_pipeline, streamer, recycle, multi>>
StreamerOnly ==
    UNCHANGED <<switcherVars, producerVars, streamVars, input_bin, file_pipeline, server, recycle, multi>>

Slots == 0 .. PreRollCount
NoBin == -1

\* The states bin.current_state() may report while the bin moves, asynchronously,
\* towards the state last requested with set_state.
CurrentStates(target) ==
    CASE target = "Null"    -> {"Null"}
      [] target = "Paused"  -> {"Null", "Ready", "Paused"}
      [] target = "Playing" -> {"Null", "Ready", "Paused", "Playing"}

\* The fields of InputPipeline the handlers work on, as one value.
Self ==
    [input_bins |-> input_bins,
     active_bin |-> active_bin,
     video_input_selector |-> video_input_selector,
     audio_input_selector |-> audio_input_selector]

Ok(self) == [self |-> self, ok |-> TRUE]
Err(self) == [self |-> self, ok |-> FALSE]

\* A handler returns at the first `?` that meets an error, so one run of a
\* handler meets at most one of them.  The places in set_active:
SetActiveFails == {"video_paused", "audio_paused", "bin_playing",
                   "video_playing", "audio_playing"}
\* The places in switch_bin_uri:
SwitchUriFails == {"state_null", "filename_to_uri", "set_uri", "state_paused"}
\* No error, or the place of the one error a run of a handler meets.
Fails == {"none"} \cup SetActiveFails \cup SwitchUriFails

\* set_active with the audio selector left on its old pad.
set_active_video_only(self, index, fail) ==
    LET s1 == [self EXCEPT !.active_bin = index,
                           !.video_input_selector.active_pad = index]
    IN  IF fail \in SetActiveFails THEN Err(s1) ELSE Ok(s1)

\* InputPipeline::set_active
set_active(self, index, fail) ==
    LET s1 == [self EXCEPT !.active_bin = index]
        s2 == [s1 EXCEPT !.video_input_selector.state = "Paused"]
        s3 == [s2 EXCEPT !.audio_input_selector.state = "Paused"]
        s4 == [s3 EXCEPT !.video_input_selector.active_pad = index,
                         !.audio_input_selector.active_pad = index]
        item == s4.input_bins[index]
        s5 == IF item.pre_rolled
              THEN [s4 EXCEPT !.input_bins[index].state = "Playing"]
              ELSE s4
        s6 == [s5 EXCEPT !.video_input_selector.state = "Playing"]
        s7 == [s6 EXCEPT !.audio_input_selector.state = "Playing"]
    IN  CASE fail = "video_paused" -> Err(s1)
          [] fail = "audio_paused" -> Err(s2)
          [] fail = "bin_playing" /\ item.pre_rolled -> Err(s4)
          [] fail = "video_playing" -> Err(s5)
          [] fail = "audio_playing" -> Err(s6)
          [] OTHER -> Ok(s7)

\* The loop of InputPipeline::switch_next, entered with next_index.
RECURSIVE switch_next_loop(_, _)
switch_next_loop(self, next_index) ==
    LET n == IF next_index = PreRollCount + 1 THEN 0 ELSE next_index
    IN  IF n = self.active_bin
        THEN IF n + 1 < PreRollCount + 1 THEN n + 1 ELSE n
        ELSE IF self.input_bins[n].pre_rolled
             THEN n
             ELSE switch_next_loop(self, n + 1)

\* The slot InputPipeline::switch_next passes to set_active.
switch_next_index(self) == switch_next_loop(self, self.active_bin + 1)

\* InputPipeline::switch_next
switch_next(self, fail) == set_active(self, switch_next_index(self), fail)

\* switch_bin_uri that leaves the pre_rolled flag of the slot as it is.
switch_bin_uri_keep_flag(self, index, fail) ==
    LET s2 == [self EXCEPT !.input_bins[index].state = "Null"]
        s3 == [s2 EXCEPT !.input_bins[index].state = "Paused"]
    IN  CASE fail = "state_null" -> Err(self)
          [] fail = "filename_to_uri" -> Err(s2)
          [] fail = "set_uri" -> Err(s2)
          [] fail = "state_paused" -> Err(s2)
          [] OTHER -> Ok(s3)

\* InputPipeline::switch_bin_uri.  The slot is stopped, bound to the next path
\* of file_iter and paused to pre-roll; which path a slot holds is not part of
\* the state, a slot is its flag and the state of its bin.
switch_bin_uri(self, index, fail) ==
    LET s1 == [self EXCEPT !.input_bins[index].pre_rolled = FALSE]
        s2 == [s1 EXCEPT !.input_bins[index].state = "Null"]
        s3 == [s2 EXCEPT !.input_bins[index].state = "Paused"]
    IN  CASE fail = "state_null" -> Err(s1)
          [] fail = "filename_to_uri" -> Err(s2)
          [] fail = "set_uri" -> Err(s2)
          [] fail = "state_paused" -> Err(s2)
          [] OTHER -> Ok(s3)

\* `a()?; b()?`: b runs on the result of a only if a succeeded.
AndThen(r, f(_)) == IF r.ok THEN f(r.self) ELSE r

\* The item-boundary path shared by Skip, Eos and Error on the active slot:
\* switch_next()?; switch_bin_uri(index)?
switch_and_recycle(self, index, fail) ==
    LET then(s) == switch_bin_uri(s, index, fail)
    IN  AndThen(switch_next(self, fail), then)

\* Bus messages: Eos, AsyncDone and Error from inside a slot, and an Error or
\* any other message (state-changed, stream-start, ...) from the shared part.
Messages ==
    [type : {"Eos", "AsyncDone", "Error"}, src : Slots]
        \cup [type : {"Error", "Other"}, src : {NoBin}]

\* handle_message with every pre-rolled slot made the active one.
handle_message_always_promote(self, msg, cur, fail) ==
    LET bin_index == msg.src
    IN  CASE msg.type = "Eos" /\ bin_index # NoBin /\ bin_index = self.active_bin ->
                switch_and_recycle(self, bin_index, fail)
          [] msg.type = "AsyncDone" /\ bin_index # NoBin /\ cur = "Paused" ->
                LET s1 == [self EXCEPT !.input_bins[bin_index].pre_rolled = TRUE]
                IN  set_active(s1, bin_index, fail)
          [] msg.type = "Error" ->
                IF bin_index # NoBin
                THEN IF bin_index = self.active_bin
                     THEN switch_and_recycle(self, bin_index, fail)
                     ELSE switch_bin_uri(self, bin_index, fail)
                ELSE Ok(self)
          [] OTHER -> Ok(self)

\* InputPipeline::handle_message; msg.src is the result of get_message_bin
\* (NoBin for None), cur the value of current_state() of the source bin.
handle_message(self, msg, cur, fail) ==
    LET bin_index == msg.src
    IN  CASE msg.type = "Eos" /\ bin_index # NoBin /\ bin_index = self.active_bin ->
                switch_and_recycle(self, bin_index, fail)
          [] msg.type = "AsyncDone" /\ bin_index # NoBin /\ cur = "Paused" ->
                LET s1 == [self EXCEPT !.input_bins[bin_index].pre_rolled = TRUE]
                    active == s1.input_bins[s1.active_bin]
                IN  IF bin_index = s1.active_bin \/ ~active.pre_rolled
                    THEN set_active(s1, bin_index, fail)
                    ELSE Ok(s1)
          [] msg.type = "Error" ->
                IF bin_index # NoBin
                THEN IF bin_index = self.active_bin
                     THEN switch_and_recycle(self, bin_index, fail)
                     ELSE switch_bin_uri(self, bin_index, fail)
                ELSE Ok(self)
          [] OTHER -> Ok(self)

\* What one run of a handler may come to: its result for each state that
\* current_state() may report and each place an error may occur at, with
\* whether it was switch_bin_uri that failed.
Outcomes(handler(_, _), curs) ==
    { [result |-> handler(cur, fail),
       rebind_failed |-> ~handler(cur, fail).ok /\ fail \in SwitchUriFails] :
         cur \in curs, fail \in Fails }

\* Writes the fields of a handler's result back and leaves play on an error.
Commit(r, next_pc) ==
    /\ input_bins' = r.self.input_bins
    /\ active_bin' = r.self.active_bin
    /\ video_input_selector' = r.self.video_input_selector
    /\ audio_input_selector' = r.self.audio_input_selector
    /\ play_pc' = IF r.ok THEN next_pc ELSE "failed"

\* Number of Skip commands in a queue of commands.
RECURSIVE CountSkips(_)
CountSkips(q) ==
    IF q = <<>> THEN 0
    ELSE (IF Head(q) = "Skip" THEN 1 ELSE 0) + CountSkips(Tail(q))

\* InputPipeline::new: every slot is bound to a path of the iterator, slot 0 is
\* the active pad of both selectors, no slot is pre-rolled and no state is set.
SwitcherInit ==
    /\ input_bins = [i \in Slots |-> [state |-> "Null", pre_rolled |-> FALSE]]
    /\ active_bin = 0
    /\ video_input_selector = [active_pad |-> 0, state |-> "Null"]
    /\ audio_input_selector = [active_pad |-> 0, state |-> "Null"]
    /\ commands = <<>>
    /\ bus = <<>>
    /\ play_pc = "new"
    /\ skip_window = [stale |-> 0, transitions |-> 0]
    /\ play_history = [item_ended |-> FALSE, rebind_failed |-> FALSE]

\* play: pipeline.set_state(Playing), which every element of the pipeline follows.
PlayStart ==
    /\ play_pc = "new"
    /\ \E ok \in BOOLEAN :
        IF ok
        THEN /\ input_bins' = [i \in Slots |-> [input_bins[i] EXCEPT !.state = "Playing"]]
             /\ video_input_selector' = [video_input_selector EXCEPT !.state = "Playing"]
             /\ audio_input_selector' = [audio_input_selector EXCEPT !.state = "Playing"]
             /\ play_pc' = "recv"
        ELSE /\ play_pc' = "failed"
             /\ UNCHANGED <<input_bins, video_input_selector, audio_input_selector>>
    /\ UNCHANGED <<active_bin, commands, bus, skip_window>>
    /\ UNCHANGED play_history
    /\ SwitcherOnly

\* play: Ok(Command::Skip) of command_rx.recv_timeout
PlaySkip ==
    /\ play_pc = "recv"
    /\ commands # <<>> /\ Head(commands) = "Skip"
    /\ commands' = Tail(commands)
    /\ \E o \in Outcomes(LAMBDA cur, fail : switch_and_recycle(Self, active_bin, fail),
                          {"Null"}) :
          /\ Commit(o.result, "bus")
          /\ skip_window' =
                IF ~o.result.ok THEN skip_window
                ELSE IF skip_window.stale > 0
                THEN [stale |-> skip_window.stale - 1,
                      transitions |-> skip_window.transitions + 1]
                ELSE [stale |-> CountSkips(Tail(commands)), transitions |-> 1]
          /\ play_history' = [item_ended |-> TRUE, rebind_failed |-> o.rebind_failed]
    /\ UNCHANGED bus
    /\ SwitcherOnly

\* play: Ok(Command::Abort) of command_rx.recv_timeout; the pipeline is set to Null.
PlayAbort ==
    /\ play_pc = "recv"
    /\ commands # <<>> /\ Head(commands) = "Abort"
    /\ commands' = Tail(commands)
    /\ input_bins' = [i \in Slots |-> [input_bins[i] EXCEPT !.state = "Null"]]
    /\ video_input_selector' = [video_input_selector EXCEPT !.state = "Null"]
    /\ audio_input_selector' = [audio_input_selector EXCEPT !.state = "Null"]
    /\ play_pc' = "aborted"
    /\ UNCHANGED <<active_bin, bus, skip_window>>
    /\ UNCHANGED play_history
    /\ SwitcherOnly

\* play: recv_timeout times out on an empty command channel.
PlayRecvTimeout ==
    /\ play_pc = "recv"
    /\ commands = <<>>
    /\ play_pc' = "bus"
    /\ UNCHANGED <<input_bins, active_bin, video_input_selector, audio_input_selector,
                   commands, bus, skip_window>>
    /\ UNCHANGED play_history
    /\ SwitcherOnly

\* play: one message of bus.iter_timed is passed to handle_message.
PlayHandleMessage ==
    /\ play_pc = "bus"
    /\ bus # <<>>
    /\ bus' = Tail(bus)
    /\ LET msg == Head(bus)
           target == IF msg.src = NoBin THEN "Null" ELSE input_bins[msg.src].state
       IN  \E o \in Outcomes(LAMBDA cur, fail : handle_message(Self, msg, cur, fail),
                              CurrentStates(target)) :
              /\ Commit(o.result, "bus")
              /\ play_history' =
                    [item_ended |-> \/ play_history.item_ended
                                    \/ /\ msg.type \in {"Eos", "Error"}
                                       /\ msg.src = active_bin,
                     rebind_failed |-> o.rebind_failed]
    /\ UNCHANGED skip_window
    /\ UNCHANGED commands
    /\ SwitcherOnly

\* play: bus.iter_timed ends after 10 ms without a message.
PlayBusTimeout ==
    /\ play_pc = "bus"
    /\ bus = <<>>
    /\ play_pc' = "recv"
    /\ UNCHANGED <<input_bins, active_bin, video_input_selector, audio_input_selector,
                   commands, bus, skip_window>>
    /\ UNCHANGED play_history
    /\ SwitcherOnly

\* A command is sent on the command channel: Skip by the control endpoint,
\* Abort, as the last command, at shutdown.
SendCommand ==
    /\ play_pc \in {"new", "recv", "bus"}
    /\ Len(commands) < MaxCommands
    /\ \A i \in 1 .. Len(commands) : commands[i] # "Abort"
    /\ \E c \in {"Skip", "Abort"} : commands' = Append(commands, c)
    /\ UNCHANGED <<input_bins, active_bin, video_input_selector, audio_input_selector,
                   bus, play_pc, skip_window>>
    /\ UNCHANGED play_history
    /\ SwitcherOnly

\* The media framework posts a message on the pipeline bus.  play reads the bus
\* only in bus.iter_timed, so a message posted while play waits for a command
\* is posted here when play has come to the bus.
PostMessage ==
    /\ play_pc = "bus"
    /\ Len(bus) < MaxBus
    /\ \E m \in Messages : bus' = Append(bus, m)
    /\ UNCHANGED <<input_bins, active_bin, video_input_selector, audio_input_selector,
                   commands, play_pc, skip_window>>
    /\ UNCHANGED play_history
    /\ SwitcherOnly

SwitcherNext ==
    \/ PlayStart
    \/ PlaySkip
    \/ PlayAbort
    \/ PlayRecvTimeout
    \/ PlayHandleMessage
    \/ PlayBusTimeout
    \/ SendCommand
    \/ PostMessage

(***************************************************************************)
(* The files behind the slots of InputPipeline.  The bus carries messages  *)
(* of elements, not of files: here every queued message is paired with     *)
(* whether the slot it came from was rebound since it was posted, and each *)
(* slot with whether the file it holds has reached the paused state.       *)
(***************************************************************************)

\* Messages play may find waiting when it comes to the bus.
MaxQueued == MaxBus + 1

RecycleOnly ==
    UNCHANGED <<producerVars, streamVars, input_bin, file_pipeline, server, streamer, multi>>

\* bin.current_state() of a slot: a bin set to Paused reports Paused once its
\* file has finished pre-rolling and not before; set to Playing it then goes on.
RecycleStates(i) ==
    LET target == input_bins[i].state
    IN  IF ~recycle.reached[i] THEN CurrentStates(target) \ {"Paused", "Playing"}
        ELSE IF target = "Playing" THEN {"Paused", "Playing"}
        ELSE {target}

\* The slot handle_message passes to switch_bin_uri, NoBin if it does not.
Rebinds(self, msg) ==
    CASE msg.type = "Eos" /\ msg.src # NoBin /\ msg.src = self.active_bin -> msg.src
      [] msg.type = "Error" /\ msg.src # NoBin -> msg.src
      [] OTHER -> NoBin

\* stale with the messages of slot i marked as left over from its former file.
MarkStale(q, stale, i) ==
    [k \in DOMAIN stale |-> stale[k] \/ (i # NoBin /\ q[k].src = i)]

\* The file of slot i finishes pre-rolling: its bin is paused and an AsyncDone
\* of the bin is posted.
RecycleReach(i) ==
    /\ play_pc = "bus"
    /\ Len(bus) < MaxQueued
    /\ input_bins[i].state \in {"Paused", "Playing"}
    /\ ~recycle.reached[i]
    /\ bus' = Append(bus, [type |-> "AsyncDone", src |-> i])
    /\ recycle' = [recycle EXCEPT !.reached[i] = TRUE, !.stale = Append(@, FALSE)]
    /\ UNCHANGED <<input_bins, active_bin, video_input_selector, audio_input_selector,
                   commands, play_pc, skip_window, play_history>>
    /\ RecycleOnly

\* An element working on the file of slot i posts an Error; several elements
\* may do so for one file.
RecycleFail(i) ==
    /\ play_pc = "bus"
    /\ Len(bus) < MaxQueued
    /\ input_bins[i].state \in {"Paused", "Playing"}
    /\ bus' = Append(bus, [type |-> "Error", src |-> i])
    /\ recycle' = [recycle EXCEPT !.stale = Append(@, FALSE)]
    /\ UNCHANGED <<input_bins, active_bin, video_input_selector, audio_input_selector,
                   commands, play_pc, skip_window, play_history>>
    /\ RecycleOnly

\* play: one message of bus.iter_timed is passed to handle_message; what is
\* still queued of a slot the handler rebinds is of the slot's former file.
RecycleHandle ==
    /\ play_pc = "bus"
    /\ bus # <<>>
    /\ bus' = Tail(bus)
    /\ LET msg == Head(bus)
           i == Rebinds(Self, msg)
       IN  \E o \in Outcomes(LAMBDA cur, fail : handle_message(Self, msg, cur, fail),
                              RecycleStates(msg.src)) :
              /\ Commit(o.result, "bus")
              /\ play_history' =
                    [item_ended |-> \/ play_history.item_ended
                                    \/ /\ msg.type \in {"Eos", "Error"}
                                       /\ msg.src = active_bin,
                     rebind_failed |-> o.rebind_failed]
              /\ recycle' =
                    IF o.result.ok /\ i # NoBin
                    THEN [stale |-> MarkStale(Tail(bus), Tail(recycle.stale), i),
                          reached |-> [recycle.reached EXCEPT ![i] = FALSE],
                          rebound |-> i,
                          was_active |-> i = active_bin]
                    ELSE [recycle EXCEPT !.stale = Tail(@), !.rebound = NoBin,
                                         !.was_active = FALSE]
    /\ UNCHANGED <<commands, skip_window>>
    /\ RecycleOnly

RecycleNext ==
    \/ PlayStart
    \/ PlayRecvTimeout
    \/ PlayBusTimeout
    \/ RecycleHandle
    \/ \E i \in Slots : RecycleReach(i)
    \/ \E i \in Slots : RecycleFail(i)

(***************************************************************************)
(* Random file producer: RandomFiles (random_files.rs) and the finder      *)
(* thread (finder.rs)                                                      *)
(***************************************************************************)
\* capacity of the Source channel handed to start_finder_thread
SourceCap == 1
\* calls of walk that are counted
MaxEpochs == 2

Paths == {"a", "b"}
NoPath == "-"

\* The configurations of roots: one root with one file, one root with two
\* files, two disjoint roots, the same directory given twice, an empty root
\* beside a root with one file, a single empty root.
RootConfigs ==
    { << <<"a">> >>,
      << <<"a", "b">> >>,
      << <<"a">>, <<"b">> >>,
      << <<"a">>, <<"a">> >>,
      << <<>>, <<"a">> >>,
      << <<>> >> }

Roots == 1 .. Len(root_dirs)

\* flume::Receiver::is_disconnected of file_notify_rx: the thread spawned by
\* walk has dropped its sender and so has every worker.
Disconnected ==
    /\ walk_pc = "done"
    /\ \A i \in Roots : workers[i].pc = "done"

\* A predicate that accepts every file.
if_fn_accept_all(map, path) == path \in Paths

\* The predicate the finder passes to next_if, applied to path with the cache
\* map: the cached answer, or the answer of a probe.
if_fn(map, path) ==
    IF map[path] # "none" THEN map[path] = "playable"
    ELSE probe[path] = "playable"

\* A predicate that never inserts into the cache.
if_fn_cache_never(map, path) == map

\* The cache after the predicate has been applied to path.
if_fn_cache(map, path) ==
    IF map[path] = "none" /\ probe[path] # "error"
    THEN [map EXCEPT ![path] = probe[path]]
    ELSE map

\* The cache after next_if has applied the predicate to every entry of the catalog.
RECURSIVE CacheAll(_, _)
CacheAll(map, fs) ==
    IF fs = <<>> THEN map ELSE CacheAll(if_fn_cache(map, Head(fs)), Tail(fs))

\* Vec::remove(index), with indices from 1.
Remove(fs, i) == SubSeq(fs, 1, i - 1) \o SubSeq(fs, i + 1, Len(fs))

\* RandomFiles::default().with_roots(root_dirs).cycle_files(true), and the
\* finder thread at the head of its loop.
ProducerInit ==
    /\ root_dirs \in RootConfigs
    /\ probe \in [Paths -> {"playable", "empty", "error"}]
    /\ files = <<>>
    /\ file_notify = [open |-> FALSE, queued |-> 0]
    /\ walk_pc = "idle"
    /\ workers = [i \in Roots |-> [pc |-> "unspawned", pos |-> 0]]
    /\ finder_pc = "ensure_empty"
    /\ info_map = [p \in Paths |-> "none"]
    /\ selected = NoPath
    /\ source_chan = <<>>
    /\ receiver_alive = TRUE
    /\ epoch_emitted = <<>>
    /\ caller \in {"finder", "iter"}
    /\ epoch = 0

\* ensure_files: `if !self.cycle || !self.files.lock().is_empty() { return; }`
\* (cycle is true in the finder).
EnsureFilesEmpty ==
    /\ finder_pc = "ensure_empty"
    /\ finder_pc' = IF files = <<>> THEN "ensure_rx"
                    ELSE IF caller = "finder" THEN "next_if" ELSE "next"
    /\ UNCHANGED <<root_dirs, probe, files, file_notify, walk_pc, workers, info_map,
                   selected, source_chan, receiver_alive, epoch_emitted>>
    /\ UNCHANGED <<caller, epoch>>
    /\ ProducerOnly

\* ensure_files: a new walk if there is no receiver or it is disconnected.
EnsureFilesWalk ==
    /\ finder_pc = "ensure_rx"
    /\ IF ~file_notify.open \/ Disconnected
       THEN /\ file_notify' = [open |-> TRUE, queued |-> 0]
            /\ walk_pc' = "running"
            /\ workers' = [i \in Roots |-> [pc |-> "unspawned", pos |-> 0]]
            /\ epoch_emitted' = <<>>
            /\ epoch' = IF epoch < MaxEpochs THEN epoch + 1 ELSE epoch
       ELSE UNCHANGED <<file_notify, walk_pc, workers, epoch_emitted, epoch>>
    /\ finder_pc' = "ensure_recv"
    /\ UNCHANGED <<root_dirs, probe, files, info_map, selected, source_chan,
                   receiver_alive, caller>>
    /\ ProducerOnly

\* ensure_files: `_ = rx.recv()` returns with a notification, or with an error
\* once the channel is empty and disconnected; it blocks otherwise.
EnsureFilesRecv ==
    /\ finder_pc = "ensure_recv"
    /\ \/ /\ file_notify.queued > 0
          /\ file_notify' = [file_notify EXCEPT !.queued = @ - 1]
       \/ /\ file_notify.queued = 0
          /\ Disconnected
          /\ UNCHANGED file_notify
    /\ finder_pc' = IF caller = "finder" THEN "next_if" ELSE "next"
    /\ UNCHANGED <<root_dirs, probe, files, walk_pc, workers, info_map, selected,
                   source_chan, receiver_alive, epoch_emitted>>
    /\ UNCHANGED <<caller, epoch>>
    /\ ProducerOnly

\* next_if under the lock of the catalog, and the finder's `continue` on None:
\* the predicate is applied to every entry, one of the entries it accepts is
\* drawn and removed.
NextIf ==
    /\ finder_pc = "next_if"
    /\ info_map' = CacheAll(info_map, files)
    /\ LET filtered == {i \in 1 .. Len(files) : if_fn(info_map, files[i])}
       IN  IF filtered = {}
           THEN /\ finder_pc' = "ensure_empty"
                /\ UNCHANGED <<files, selected, epoch_emitted>>
           ELSE \E index \in filtered :
                /\ files' = Remove(files, index)
                /\ selected' = files[index]
                /\ epoch_emitted' = Append(epoch_emitted, files[index])
                /\ finder_pc' = "send"
    /\ UNCHANGED <<root_dirs, probe, file_notify, walk_pc, workers, source_chan,
                   receiver_alive>>
    /\ UNCHANGED <<caller, epoch>>
    /\ ProducerOnly

\* Iterator::next after ensure_files: random_range(..files.len()) panics on an
\* empty range, otherwise the entry drawn is removed and returned.
IterNext ==
    /\ finder_pc = "next"
    /\ IF files = <<>>
       THEN /\ finder_pc' = "panicked"
            /\ UNCHANGED <<files, selected>>
       ELSE \E index \in 1 .. Len(files) :
            /\ files' = Remove(files, index)
            /\ selected' = files[index]
            /\ finder_pc' = "returned"
    /\ UNCHANGED <<root_dirs, probe, file_notify, walk_pc, workers, info_map,
                   source_chan, receiver_alive, epoch_emitted>>
    /\ UNCHANGED <<caller, epoch>>
    /\ ProducerOnly

\* The user of the iterator takes the path and calls next again.
IterCallAgain ==
    /\ finder_pc = "returned"
    /\ selected' = NoPath
    /\ finder_pc' = "ensure_empty"
    /\ UNCHANGED <<root_dirs, probe, files, file_notify, walk_pc, workers, info_map,
                   source_chan, receiver_alive, epoch_emitted>>
    /\ UNCHANGED <<caller, epoch>>
    /\ ProducerOnly

\* The finder looks the path up in its cache (the unwrap panics if the path is
\* not cached) and sends the Source; the thread returns if the channel is
\* closed and blocks while it is full.
FinderSend ==
    /\ finder_pc = "send"
    /\ IF info_map[selected] = "none"
       THEN /\ finder_pc' = "panicked"
            /\ UNCHANGED source_chan
       ELSE IF ~receiver_alive
       THEN /\ finder_pc' = "stopped"
            /\ UNCHANGED source_chan
       ELSE /\ Len(source_chan) < SourceCap
            /\ source_chan' = Append(source_chan,
                                     [path |-> selected, media_info |-> info_map[selected]])
            /\ finder_pc' = "ensure_empty"
    /\ selected' = NoPath
    /\ UNCHANGED <<root_dirs, probe, files, file_notify, walk_pc, workers, info_map,
                   receiver_alive, epoch_emitted>>
    /\ UNCHANGED <<caller, epoch>>
    /\ ProducerOnly

\* The consumer of the Sources receives one.
ReceiveSource ==
    /\ receiver_alive
    /\ source_chan # <<>>
    /\ source_chan' = Tail(source_chan)
    /\ UNCHANGED <<root_dirs, probe, files, file_notify, walk_pc, workers, finder_pc,
                   info_map, selected, receiver_alive, epoch_emitted>>
    /\ UNCHANGED <<caller, epoch>>
    /\ ProducerOnly

\* The consumer of the Sources drops its receiver (shutdown).
DropReceiver ==
    /\ receiver_alive
    /\ receiver_alive' = FALSE
    /\ source_chan' = <<>>
    /\ UNCHANGED <<root_dirs, probe, files, file_notify, walk_pc, workers, finder_pc,
                   info_map, selected, epoch_emitted>>
    /\ UNCHANGED <<caller, epoch>>
    /\ ProducerOnly

\* walk: the spawned thread starts the worker of the next root.
WalkSpawn ==
    /\ walk_pc = "running"
    /\ \E i \in Roots :
        /\ workers[i].pc = "unspawned"
        /\ \A j \in 1 .. i - 1 : workers[j].pc # "unspawned"
        /\ workers' = [workers EXCEPT ![i].pc = "walking"]
    /\ UNCHANGED <<root_dirs, probe, files, file_notify, walk_pc, finder_pc, info_map,
                   selected, source_chan, receiver_alive, epoch_emitted>>
    /\ UNCHANGED <<caller, epoch>>
    /\ ProducerOnly

\* walk: the spawned thread ends after the last root and drops its sender.
WalkExit ==
    /\ walk_pc = "running"
    /\ \A i \in Roots : workers[i].pc # "unspawned"
    /\ walk_pc' = "done"
    /\ UNCHANGED <<root_dirs, probe, files, file_notify, workers, finder_pc, info_map,
                   selected, source_chan, receiver_alive, epoch_emitted>>
    /\ UNCHANGED <<caller, epoch>>
    /\ ProducerOnly

\* walk_one: the next regular file of the root is pushed under the lock.
WalkOnePush(i) ==
    /\ workers[i].pc = "walking"
    /\ workers[i].pos < Len(root_dirs[i])
    /\ files' = Append(files, root_dirs[i][workers[i].pos + 1])
    /\ workers' = [workers EXCEPT ![i].pos = @ + 1]
    /\ UNCHANGED <<root_dirs, probe, file_notify, walk_pc, finder_pc, info_map,
                   selected, source_chan, receiver_alive, epoch_emitted>>
    /\ UNCHANGED <<caller, epoch>>
    /\ ProducerOnly

\* The worker of a root, its walk done: `_ = tx.send(())` on the channel of
\* capacity 1, then the thread ends and drops its sender.
WalkNotify(i) ==
    /\ workers[i].pc = "walking"
    /\ workers[i].pos = Len(root_dirs[i])
    /\ file_notify.queued < 1
    /\ file_notify' = [file_notify EXCEPT !.queued = @ + 1]
    /\ workers' = [workers EXCEPT ![i].pc = "done"]
    /\ UNCHANGED <<root_dirs, probe, files, walk_pc, finder_pc, info_map, selected,
                   source_chan, receiver_alive, epoch_emitted>>
    /\ UNCHANGED <<caller, epoch>>
    /\ ProducerOnly

ProducerNext ==
    \/ EnsureFilesEmpty
    \/ EnsureFilesWalk
    \/ EnsureFilesRecv
    \/ NextIf
    \/ IterNext
    \/ IterCallAgain
    \/ FinderSend
    \/ ReceiveSource
    \/ DropReceiver
    \/ WalkSpawn
    \/ WalkExit
    \/ \E i \in Roots : WalkOnePush(i)
    \/ \E i \in Roots : WalkNotify(i)

(***************************************************************************)
(* Input assembly: InputBin (stream/input_bin.rs)                          *)
(***************************************************************************)
\* number of set_uri calls on one bin
MaxUris == 2

\* The pads uridecodebin3 may add for a file, by name.
VideoPads == {"video_0", "video_1"}
AudioPads == {"audio_0"}
OtherPads == {"text_0"}
DecoderPads == VideoPads \cup AudioPads \cup OtherPads

\* InputBin::new: the elements are created; the two chains from video_convert
\* and audio_convert to the ghost pads are linked, the test sources and
\* imagefreeze are linked to nothing; the buffer probe is on the src pad of
\* imagefreeze; duration is None.  sink_peer names the src pad a sink pad is
\* linked to ("none": not linked); a decoder pad is named by its pad name, the
\* src pad of another element by the element's name.
InputBinNew ==
    [bin |-> "Null",
     uri_decode |-> [uri |-> 0, streams |-> "dropped", pads |-> {},
                     still |-> FALSE],   \* the file at the uri is a still image
     video_test_src |-> [state |-> "Null", locked |-> FALSE],
     image_freeze |-> [sink_peer |-> "none", probe |-> TRUE, out |-> "none"],
     video_convert |-> [sink_peer |-> "none", eos |-> FALSE],
     audio_test_src |-> [state |-> "Null", locked |-> FALSE],
     audio_convert |-> [sink_peer |-> "none", eos |-> FALSE],
     duration |-> "None"]

\* Pad::is_linked / Pad::unlink on a sink pad, as set_uri and the pad-added
\* handler use them: the sink pad has no peer afterwards.
Unlinked(element) == [element EXCEPT !.sink_peer = "none"]

\* The src pad `src` is linked to some sink pad of the bin.
SrcLinked(self, src) ==
    \/ self.image_freeze.sink_peer = src
    \/ self.video_convert.sink_peer = src
    \/ self.audio_convert.sink_peer = src

\* set_uri without the three unlink steps.
set_uri_keep_links(self) ==
    LET s1 == [self EXCEPT !.uri_decode.uri = @ + 1,
                           !.uri_decode.streams = "pending",
                           !.uri_decode.pads = {},
                           !.image_freeze.out = "none"]
    IN  IF SrcLinked(s1, "video_black") \/ s1.video_convert.sink_peer # "none"
        THEN Err(s1)
        ELSE LET s3 == [s1 EXCEPT !.video_convert.sink_peer = "video_black"]
             IN  IF SrcLinked(s3, "audio_silent") \/ s3.audio_convert.sink_peer # "none"
                 THEN Err(s3)
                 ELSE Ok([s3 EXCEPT !.audio_convert.sink_peer = "audio_silent",
                                    !.video_test_src.locked = FALSE,
                                    !.audio_test_src.locked = FALSE])

\* InputBin::set_uri: the uri is set, the sink pads of imagefreeze,
\* video_convert and audio_convert are unlinked, the test sources are linked
\* to the converters (a link fails if one of its pads is linked) and unlocked.
set_uri(self) ==
    LET s1 == [self EXCEPT !.uri_decode.uri = @ + 1,
                           !.uri_decode.streams = "pending",
                           !.uri_decode.pads = {},
                           !.image_freeze.out = "none"]
        s2 == [s1 EXCEPT !.image_freeze = Unlinked(@),
                         !.video_convert = Unlinked(@),
                         !.audio_convert = Unlinked(@)]
    IN  IF SrcLinked(s2, "video_black") \/ s2.video_convert.sink_peer # "none"
        THEN Err(s2)
        ELSE LET s3 == [s2 EXCEPT !.video_convert.sink_peer = "video_black"]
             IN  IF SrcLinked(s3, "audio_silent") \/ s3.audio_convert.sink_peer # "none"
                 THEN Err(s3)
                 ELSE Ok([s3 EXCEPT !.audio_convert.sink_peer = "audio_silent",
                                    !.video_test_src.locked = FALSE,
                                    !.audio_test_src.locked = FALSE])

\* The pad-added handler of uri_decode for the pad pad_name; zero tells that
\* query_duration gave ZERO (or failed), which the handler takes for an image.
pad_added(self, pad_name, zero) ==
    LET s1 == [self EXCEPT !.duration = IF zero THEN "5s" ELSE "stream",
                           !.uri_decode.pads = @ \cup {pad_name}]
    IN  IF pad_name \in VideoPads
        THEN LET s2 == [s1 EXCEPT !.video_test_src = [state |-> "Null", locked |-> TRUE],
                                  !.video_convert = Unlinked(@)]
             IN  IF zero
                 THEN LET s3 == IF s2.image_freeze.sink_peer = "none"
                                THEN [s2 EXCEPT !.image_freeze.sink_peer = pad_name]
                                ELSE s2
                      IN  IF SrcLinked(s3, "image_freeze") THEN s3
                          ELSE [s3 EXCEPT !.video_convert.sink_peer = "image_freeze"]
                 ELSE [s2 EXCEPT !.video_convert.sink_peer = pad_name]
        ELSE IF pad_name \in AudioPads
        THEN [s1 EXCEPT !.audio_test_src = [state |-> "Null", locked |-> TRUE],
                        !.audio_convert.sink_peer = pad_name]
        ELSE s1

\* Bin::set_state(target) on the bin: the elements that are not locked follow;
\* on the way to Null uri_decode removes its pads, which unlinks them, and the
\* pads of the bin forget the EOS they have seen.
bin_set_state(self, target) ==
    LET s1 == [self EXCEPT
                 !.bin = target,
                 !.video_test_src.state = IF self.video_test_src.locked THEN @ ELSE target,
                 !.audio_test_src.state = IF self.audio_test_src.locked THEN @ ELSE target]
        Drop(element) == IF element.sink_peer \in DecoderPads THEN Unlinked(element)
                         ELSE element
    IN  IF target # "Null" THEN s1
        ELSE [s1 EXCEPT !.uri_decode.streams = "dropped",
                        !.uri_decode.pads = {},
                        !.image_freeze = [Drop(@) EXCEPT !.out = "none"],
                        !.video_convert = [Drop(@) EXCEPT !.eos = FALSE],
                        !.audio_convert = [Drop(@) EXCEPT !.eos = FALSE]]

\* The buffer probe on the src pad of imagefreeze, for a buffer whose PTS is
\* (late) or is not greater than the duration: with a duration set and a late
\* buffer, EOS is pushed from the src pads of video_convert and audio_convert
\* and the probe removes itself.  out records the buffer that passed.
freeze_probe(self, late) ==
    LET s1 == [self EXCEPT !.image_freeze.out =
                              IF late \/ @ = "late" THEN "late" ELSE "early"]
    IN  IF self.image_freeze.probe /\ self.duration # "None" /\ late
        THEN [s1 EXCEPT !.video_convert.eos = TRUE,
                        !.audio_convert.eos = TRUE,
                        !.image_freeze.probe = FALSE]
        ELSE s1

InputBinInit == input_bin = InputBinNew

\* InputBin::set_path / set_uri, called by InputPipeline::new on a new bin and
\* by switch_bin_uri after it has set the bin to Null.
SetUri ==
    /\ input_bin.uri_decode.uri < MaxUris
    /\ \E still \in BOOLEAN :
          input_bin' = [set_uri(input_bin).self EXCEPT !.uri_decode.still = still]
    /\ InputBinOnly

\* The owner of the bin changes its state.
BinSetState ==
    /\ input_bin.uri_decode.uri > 0
    /\ \E target \in {"Null", "Paused", "Playing"} :
          /\ target # input_bin.bin
          /\ input_bin' = bin_set_state(input_bin, target)
    /\ InputBinOnly

\* uri_decode, at work on the file, adds a pad.
PadAdded ==
    /\ input_bin.bin # "Null"
    /\ input_bin.uri_decode.streams = "pending"
    /\ \E pad_name \in DecoderPads \ input_bin.uri_decode.pads, zero \in BOOLEAN :
          input_bin' = pad_added(input_bin, pad_name, zero)
    /\ InputBinOnly

\* imagefreeze, fed by a decoder pad, pushes a buffer from its src pad; the
\* PTS passes the duration only while the bin is playing.
FreezeBuffer ==
    /\ input_bin.bin # "Null"
    /\ input_bin.image_freeze.sink_peer # "none"
    /\ input_bin.video_convert.sink_peer = "image_freeze"
    /\ \E late \in BOOLEAN :
          /\ late => input_bin.bin = "Playing"
          /\ input_bin' = freeze_probe(input_bin, late)
    /\ InputBinOnly

InputBinNext ==
    \/ SetUri
    \/ BinSetState
    \/ PadAdded
    \/ FreezeBuffer

(***************************************************************************)
(* Media probe: MediaInfo (media_info.rs)                                  *)
(***************************************************************************)
\* gstreamer_pbutils::DiscovererResult
DiscovererResults == {"Ok", "UriInvalid", "Error", "Timeout", "Busy", "MissingPlugins"}

\* The calls of detect_media that can fail with `?`.
DetectFails == {"none", "filename_to_uri", "Discoverer::new", "discover_uri_async"}

\* MediaInfo, each Option field as whether it is Some.
MediaInfos == [image : BOOLEAN, video : BOOLEAN, audio : BOOLEAN]

\* MediaInfo::default()
MediaInfoDefault == [image |-> FALSE, video |-> FALSE, audio |-> FALSE]

\* detect_media: fail is the call that fails, result the result the discoverer
\* reports, streams what add_topology finds in the stream info.
detect_media(fail, result, streams) ==
    IF fail # "none" THEN [ok |-> FALSE, info |-> MediaInfoDefault]
    ELSE [ok |-> TRUE, info |-> IF result = "Ok" THEN streams ELSE MediaInfoDefault]

\* MediaInfo::is_empty
is_empty(info) == ~info.image /\ ~info.video /\ ~info.audio

\* MediaInfo::media_type
media_type(info) ==
    IF info.video
    THEN IF info.audio THEN "VideoWithAudio" ELSE "VideoWithoutAudio"
    ELSE IF ~info.image THEN "Image"
    ELSE "Unknown"

(***************************************************************************)
(* file_feeder_task (stream/feeder.rs)                                     *)
(***************************************************************************)
\* number of events the model lets a task emit
MaxEvents == 4
\* number of timer threads that may wait at abort_tx.send at once
MaxTimers == 1

Emit(kind, path) == Append(events, [kind |-> kind, path |-> path])

FeederInit ==
    /\ events = <<>>
    /\ task_commands = 0
    /\ feeder_pc = "recv"
    /\ feeder_path = NoPath
    /\ feeder_discovery = "none"
    /\ feeder_detect = "none"
    /\ feeder_info = MediaInfoDefault
    /\ feeder_type = "none"
    /\ feeder_pipeline = "none"
    /\ abort_chan = 0
    /\ skip_thread_pc = "recv"
    /\ timer_armed = FALSE
    /\ timers_sending = 0
    /\ appsrc_eos = FALSE
    /\ abort_from = [token |-> "none", late |-> 0]

\* file_rx.recv() returns a path.
FeederRecv ==
    /\ feeder_pc = "recv"
    /\ Len(events) + 2 <= MaxEvents
    /\ \E path \in Paths : feeder_path' = path
    /\ feeder_discovery' = "none"
    /\ feeder_detect' = "none"
    /\ feeder_info' = MediaInfoDefault
    /\ feeder_type' = "none"
    /\ feeder_pipeline' = "none"
    /\ feeder_pc' = "detect"
    /\ UNCHANGED <<events, task_commands, abort_chan, skip_thread_pc, timer_armed,
                   timers_sending, appsrc_eos>>
    /\ UNCHANGED abort_from
    /\ FeederOnly

\* file_rx.recv() fails, the channel is closed: EOS to both appsrcs, the task ends.
FeederShutdown ==
    /\ feeder_pc = "recv"
    /\ appsrc_eos' = TRUE
    /\ feeder_pc' = "shutdown"
    /\ UNCHANGED <<events, task_commands, feeder_path, feeder_discovery, feeder_detect,
                   feeder_info, feeder_type, feeder_pipeline, abort_chan, skip_thread_pc,
                   timer_armed, timers_sending>>
    /\ UNCHANGED abort_from
    /\ FeederOnly

\* MediaInfo::detect(&path); an Err is logged and the loop continues.
FeederDetect ==
    /\ feeder_pc = "detect"
    /\ \E fail \in DetectFails, result \in DiscovererResults, streams \in MediaInfos :
        LET r == detect_media(fail, result, streams)
        IN  /\ feeder_discovery' = IF fail = "none" THEN result ELSE "none"
            /\ feeder_detect' = IF r.ok THEN "Ok" ELSE "Err"
            /\ feeder_info' = r.info
            /\ feeder_pc' = IF r.ok THEN "build" ELSE "recv"
    /\ UNCHANGED <<events, task_commands, feeder_path, feeder_type, feeder_pipeline,
                   abort_chan, skip_thread_pc, timer_armed, timers_sending, appsrc_eos>>
    /\ UNCHANGED abort_from
    /\ FeederOnly

\* media_info.media_type(), the pipeline of that type, and the Playing event;
\* Unknown and a pipeline that cannot be built continue with the next path.
FeederBuild ==
    /\ feeder_pc = "build"
    /\ feeder_type' = media_type(feeder_info)
    /\ \E pipeline_ok \in BOOLEAN :
        IF feeder_type' = "Unknown" \/ ~pipeline_ok
        THEN /\ feeder_pc' = "recv"
             /\ UNCHANGED <<events, feeder_pipeline>>
        ELSE /\ feeder_pc' = "start"
             /\ feeder_pipeline' = "Null"
             /\ events' = Emit("Playing", feeder_path)
    /\ UNCHANGED <<task_commands, feeder_path, feeder_discovery, feeder_detect,
                   feeder_info, abort_chan, skip_thread_pc, timer_armed, timers_sending,
                   appsrc_eos>>
    /\ UNCHANGED abort_from
    /\ FeederOnly

\* The start of an item with the abort channel emptied first.
FeederStart_DrainAbort ==
    /\ feeder_pc = "start"
    /\ abort_chan' = 0
    /\ \E ok \in BOOLEAN :
        IF ok
        THEN /\ feeder_pipeline' = "Playing"
             /\ timer_armed' = (feeder_type = "Image")
             /\ feeder_pc' = "poll"
        ELSE /\ feeder_pc' = "panicked"
             /\ UNCHANGED <<feeder_pipeline, timer_armed>>
    /\ UNCHANGED <<events, task_commands, feeder_path, feeder_discovery, feeder_detect,
                   feeder_info, feeder_type, skip_thread_pc, timers_sending,
                   appsrc_eos>>
    /\ abort_from' = [abort_from EXCEPT !.token = "none"]
    /\ FeederOnly

\* pipeline.set_state(Playing).expect(..), and the timer thread of an image.
FeederStart ==
    /\ feeder_pc = "start"
    /\ \E ok \in BOOLEAN :
        IF ok
        THEN /\ feeder_pipeline' = "Playing"
             /\ timer_armed' = (feeder_type = "Image")
             /\ feeder_pc' = "poll"
        ELSE /\ feeder_pc' = "panicked"
             /\ UNCHANGED <<feeder_pipeline, timer_armed>>
    /\ UNCHANGED <<events, task_commands, feeder_path, feeder_discovery, feeder_detect,
                   feeder_info, feeder_type, abort_chan, skip_thread_pc, timers_sending,
                   appsrc_eos>>
    /\ UNCHANGED abort_from
    /\ FeederOnly

\* 'main: abort_rx.recv_timeout(10 ms): a token ends the item.
FeederPollAbort ==
    /\ feeder_pc = "poll"
    /\ IF abort_chan > 0
       THEN /\ abort_chan' = abort_chan - 1
            /\ feeder_pc' = "end"
       ELSE /\ feeder_pc' = "bus"
            /\ UNCHANGED abort_chan
    /\ UNCHANGED <<events, task_commands, feeder_path, feeder_discovery, feeder_detect,
                   feeder_info, feeder_type, feeder_pipeline, skip_thread_pc, timer_armed,
                   timers_sending, appsrc_eos>>
    /\ abort_from' = [abort_from EXCEPT !.token = IF abort_chan > 0 THEN "none" ELSE @]
    /\ FeederOnly

\* The bus loop with the Eos of the item passed on to the output appsrcs.
FeederBus_ForwardEos ==
    /\ feeder_pc = "bus"
    /\ \E msg \in {"Eos", "Error", "Other", "timeout"} :
        /\ feeder_pc' = IF msg \in {"Eos", "Error"} THEN "end" ELSE "poll"
        /\ appsrc_eos' = (appsrc_eos \/ msg = "Eos")
    /\ UNCHANGED <<events, task_commands, feeder_path, feeder_discovery, feeder_detect,
                   feeder_info, feeder_type, feeder_pipeline, abort_chan, skip_thread_pc,
                   timer_armed, timers_sending>>
    /\ UNCHANGED abort_from
    /\ FeederOnly

\* 'main: bus.iter_timed(10 ms): Eos or Error ends the item, anything else and
\* the timeout go round the loop.
FeederBus ==
    /\ feeder_pc = "bus"
    /\ \E msg \in {"Eos", "Error", "Other", "timeout"} :
        feeder_pc' = IF msg \in {"Eos", "Error"} THEN "end" ELSE "poll"
    /\ UNCHANGED <<events, task_commands, feeder_path, feeder_discovery, feeder_detect,
                   feeder_info, feeder_type, feeder_pipeline, abort_chan, skip_thread_pc,
                   timer_armed, timers_sending, appsrc_eos>>
    /\ UNCHANGED abort_from
    /\ FeederOnly

\* The end of an item without its Ended event.
FeederEnd_NoEvent ==
    /\ feeder_pc = "end"
    /\ feeder_pipeline' = "Null"
    /\ timer_armed' = FALSE
    /\ feeder_pc' = "recv"
    /\ UNCHANGED <<events, task_commands, feeder_path, feeder_discovery, feeder_detect,
                   feeder_info, feeder_type, abort_chan, skip_thread_pc, timers_sending,
                   appsrc_eos>>
    /\ abort_from' = [token |-> IF abort_from.token = "timer" THEN "late" ELSE abort_from.token,
                      late |-> timers_sending]
    /\ FeederOnly

\* After 'main: the pipeline is set to Null, Ended is emitted, the appsrcs are
\* flushed.  A timer thread still asleep finds the pipeline Null or gone.
FeederEnd ==
    /\ feeder_pc = "end"
    /\ feeder_pipeline' = "Null"
    /\ events' = Emit("Ended", feeder_path)
    /\ timer_armed' = FALSE
    /\ feeder_pc' = "recv"
    /\ UNCHANGED <<task_commands, feeder_path, feeder_discovery, feeder_detect,
                   feeder_info, feeder_type, abort_chan, skip_thread_pc, timers_sending,
                   appsrc_eos>>
    /\ abort_from' = [token |-> IF abort_from.token = "timer" THEN "late" ELSE abort_from.token,
                      late |-> timers_sending]
    /\ FeederOnly

\* The timer thread of an image wakes after 10 s while its pipeline is alive
\* and not Null, and goes on to send an abort token.
TimerWake ==
    /\ timer_armed
    /\ feeder_pipeline = "Playing"
    /\ timers_sending < MaxTimers
    /\ timer_armed' = FALSE
    /\ timers_sending' = timers_sending + 1
    /\ UNCHANGED <<events, task_commands, feeder_pc, feeder_path, feeder_discovery,
                   feeder_detect, feeder_info, feeder_type, feeder_pipeline, abort_chan,
                   skip_thread_pc, appsrc_eos>>
    /\ UNCHANGED abort_from
    /\ FeederOnly

\* A timer thread: `_ = abort_tx.send(())`, which blocks while the channel is full.
TimerSend ==
    /\ timers_sending > 0
    /\ abort_chan < 1
    /\ abort_chan' = abort_chan + 1
    /\ timers_sending' = timers_sending - 1
    /\ UNCHANGED <<events, task_commands, feeder_pc, feeder_path, feeder_discovery,
                   feeder_detect, feeder_info, feeder_type, feeder_pipeline,
                   skip_thread_pc, timer_armed, appsrc_eos>>
    /\ \E late \in BOOLEAN :
          /\ IF late THEN abort_from.late > 0 ELSE timers_sending > abort_from.late
          /\ abort_from' = [token |-> IF late THEN "late" ELSE "timer",
                            late |-> IF late THEN abort_from.late - 1 ELSE abort_from.late]
    /\ FeederOnly

\* The control endpoint sends a Skip to the feeder.
FeederSkipRequest ==
    /\ feeder_pc \notin {"idle", "shutdown", "panicked"}
    /\ task_commands < MaxCommands
    /\ task_commands' = task_commands + 1
    /\ UNCHANGED <<events, feederVars>>
    /\ FeederOnly

\* The command thread of the feeder: command_rx.recv() returns a Skip.
SkipThreadRecv ==
    /\ feeder_pc # "idle"
    /\ skip_thread_pc = "recv"
    /\ task_commands > 0
    /\ task_commands' = task_commands - 1
    /\ skip_thread_pc' = "send"
    /\ UNCHANGED <<events, feeder_pc, feeder_path, feeder_discovery, feeder_detect,
                   feeder_info, feeder_type, feeder_pipeline, abort_chan, timer_armed,
                   timers_sending, appsrc_eos>>
    /\ UNCHANGED abort_from
    /\ FeederOnly

\* The command thread of the feeder: abort_tx_clone.send(()), which blocks
\* while the channel is full.
SkipThreadSend ==
    /\ skip_thread_pc = "send"
    /\ abort_chan < 1
    /\ abort_chan' = abort_chan + 1
    /\ skip_thread_pc' = "recv"
    /\ UNCHANGED <<events, task_commands, feeder_pc, feeder_path, feeder_discovery,
                   feeder_detect, feeder_info, feeder_type, feeder_pipeline, timer_armed,
                   timers_sending, appsrc_eos>>
    /\ abort_from' = [abort_from EXCEPT !.token = "skip"]
    /\ FeederOnly

FeederNext ==
    \/ FeederRecv
    \/ FeederShutdown
    \/ FeederDetect
    \/ FeederBuild
    \/ FeederStart
    \/ FeederPollAbort
    \/ FeederBus
    \/ FeederEnd
    \/ TimerWake
    \/ TimerSend
    \/ FeederSkipRequest
    \/ SkipThreadRecv
    \/ SkipThreadSend

(***************************************************************************)
(* stream_queue_task (stream/streame_queue.rs)                             *)
(***************************************************************************)
\* number of samples one stream of an item holds
MaxSamples == 1

Streams == {"video", "audio"}

\* The positions of stream_queue_task at which an item is being pushed: from the
\* Playing event of the item to the end of its scope.
ItemPcs == {"spawn_video", "spawn_audio", "flush", "ended", "reset", "join"}

QueueInit ==
    /\ events = <<>>
    /\ task_commands = 0
    /\ queue_pc = "recv"
    /\ queue_item = NoPath
    /\ samples = [s \in Streams |-> 0]
    /\ push_pc = [s \in Streams |-> "idle"]
    /\ push_data = [s \in Streams |-> FALSE]
    /\ abort = FALSE
    /\ abort_of = "none"

\* queue_rx.recv() returns an item; Playing is emitted.
QueueRecv ==
    /\ queue_pc = "recv"
    /\ Len(events) + 2 <= MaxEvents
    /\ \E path \in Paths :
        /\ queue_item' = path
        /\ events' = Emit("Playing", path)
    /\ samples' \in [Streams -> 0 .. MaxSamples]
    /\ queue_pc' = "spawn_video"
    /\ abort_of' = IF abort_of = "item" THEN "previous" ELSE abort_of
    /\ UNCHANGED <<task_commands, push_pc, push_data, abort>>
    /\ QueueOnly

\* queue_rx.recv() fails, the channel is disconnected: the task ends.
QueueClosed ==
    /\ queue_pc = "recv"
    /\ queue_pc' = "stopped"
    /\ UNCHANGED <<events, task_commands, queue_item, samples, push_pc, push_data, abort,
                   abort_of>>
    /\ QueueOnly

\* thread::scope: the video thread is spawned.
QueueSpawnVideo ==
    /\ queue_pc = "spawn_video"
    /\ push_pc' = [push_pc EXCEPT !["video"] = "check_abort"]
    /\ queue_pc' = "spawn_audio"
    /\ UNCHANGED <<events, task_commands, queue_item, samples, push_data, abort,
                   abort_of>>
    /\ QueueOnly

\* thread::scope: the audio thread is spawned.
QueueSpawnAudio ==
    /\ queue_pc = "spawn_audio"
    /\ push_pc' = [push_pc EXCEPT !["audio"] = "check_abort"]
    /\ queue_pc' = "flush"
    /\ UNCHANGED <<events, task_commands, queue_item, samples, push_data, abort,
                   abort_of>>
    /\ QueueOnly

\* thread::scope: FlushStart and FlushStop are sent to both appsrcs.
QueueFlush ==
    /\ queue_pc = "flush"
    /\ queue_pc' = "ended"
    /\ UNCHANGED <<events, task_commands, queue_item, samples, push_pc, push_data, abort,
                   abort_of>>
    /\ QueueOnly

\* thread::scope: Ended is emitted.
QueueEnded ==
    /\ queue_pc = "ended"
    /\ events' = Emit("Ended", queue_item)
    /\ queue_pc' = "reset"
    /\ UNCHANGED <<task_commands, queue_item, samples, push_pc, push_data, abort,
                   abort_of>>
    /\ QueueOnly

\* thread::scope: abort.store(false)
QueueReset ==
    /\ queue_pc = "reset"
    /\ abort' = FALSE
    /\ abort_of' = "none"
    /\ queue_pc' = "join"
    /\ UNCHANGED <<events, task_commands, queue_item, samples, push_pc, push_data>>
    /\ QueueOnly

\* The scope ends when both threads have returned.
QueueJoin ==
    /\ queue_pc = "join"
    /\ \A s \in Streams : push_pc[s] = "done"
    /\ push_pc' = [s \in Streams |-> "idle"]
    /\ queue_pc' = "recv"
    /\ UNCHANGED <<events, task_commands, queue_item, samples, push_data, abort,
                   abort_of>>
    /\ QueueOnly

\* push_buffers: `if abort.load() { break; }`
PushCheckAbort(s) ==
    /\ push_pc[s] = "check_abort"
    /\ push_pc' = [push_pc EXCEPT ![s] = IF abort THEN "done" ELSE "check_push"]
    /\ UNCHANGED <<events, task_commands, queue_pc, queue_item, samples, push_data, abort,
                   abort_of>>
    /\ QueueOnly

\* push_buffers: `if !push_data.load() { continue; }`
PushCheckData(s) ==
    /\ push_pc[s] = "check_push"
    /\ push_pc' = [push_pc EXCEPT ![s] = IF push_data[s] THEN "recv" ELSE "check_abort"]
    /\ UNCHANGED <<events, task_commands, queue_pc, queue_item, samples, push_data, abort,
                   abort_of>>
    /\ QueueOnly

\* push_buffers: buffer_rx.recv_timeout(100 ms); a sample is pushed to the
\* appsrc, a timeout or a disconnected channel goes round the loop.
PushSample(s) ==
    /\ push_pc[s] = "recv"
    /\ samples' = IF samples[s] > 0 THEN [samples EXCEPT ![s] = @ - 1] ELSE samples
    /\ push_pc' = [push_pc EXCEPT ![s] = "check_abort"]
    /\ UNCHANGED <<events, task_commands, queue_pc, queue_item, push_data, abort,
                   abort_of>>
    /\ QueueOnly

\* The need_data (true) and enough_data (false) callbacks of an appsrc.
PushDataCallback(s) ==
    /\ queue_pc # "idle"
    /\ \E need \in BOOLEAN : push_data' = [push_data EXCEPT ![s] = need]
    /\ UNCHANGED <<events, task_commands, queue_pc, queue_item, samples, push_pc, abort,
                   abort_of>>
    /\ QueueOnly

\* The control endpoint sends a Skip to the task.
QueueSkipRequest ==
    /\ queue_pc \notin {"idle", "stopped"}
    /\ task_commands < MaxCommands
    /\ task_commands' = task_commands + 1
    /\ UNCHANGED <<events, queueVars>>
    /\ QueueOnly

\* The command thread: command_rx.recv() returns a Skip, abort.store(true).
QueueSkip ==
    /\ queue_pc # "idle"
    /\ task_commands > 0
    /\ task_commands' = task_commands - 1
    /\ abort' = TRUE
    /\ abort_of' = IF queue_pc \in ItemPcs THEN "item" ELSE "between"
    /\ UNCHANGED <<events, queue_pc, queue_item, samples, push_pc, push_data>>
    /\ QueueOnly

QueueNext ==
    \/ QueueRecv
    \/ QueueClosed
    \/ QueueSpawnVideo
    \/ QueueSpawnAudio
    \/ QueueFlush
    \/ QueueEnded
    \/ QueueReset
    \/ QueueJoin
    \/ \E s \in Streams : PushCheckAbort(s)
    \/ \E s \in Streams : PushCheckData(s)
    \/ \E s \in Streams : PushSample(s)
    \/ \E s \in Streams : PushDataCallback(s)
    \/ QueueSkipRequest
    \/ QueueSkip

(***************************************************************************)
(* The transcoding pipeline: FilePipeline (streamer/new_pipeline.rs)       *)
(***************************************************************************)
\* gstreamer::ClockTime::SECOND, with the clock counted in milliseconds
SECOND == 1000
\* the hold of a file without a duration, in seconds
DefaultHoldSeconds == 5
\* VideoOptions::fps of the three presets
Fps == 30
\* sample rate and samples per buffer of the silent audiotestsrc
AudioRate == 44100
SamplesPerBuffer == 1024
\* the num-buffers of a source that was not told when to stop
Unlimited == -1

\* Option<ClockTime> of MediaInfo::duration: None is {}, Some(d) is {d}
ReportedDurations == {0, 500, 1000, 2500, 7000}
Durations == {{}} \cup {{d} : d \in ReportedDurations}
TimedMediaInfos == [duration : Durations, image : BOOLEAN, video : BOOLEAN, audio : BOOLEAN]

\* MediaInfo::play_duration
play_duration(self) ==
    IF self.duration = {} THEN DefaultHoldSeconds * SECOND
    ELSE CHOOSE d \in self.duration : TRUE

\* ClockTime::seconds, and the ceiling of seconds_f64 * rate / 1024
seconds(t) == t \div SECOND
buffer_count(t) ==
    (t * AudioRate + SECOND * SamplesPerBuffer - 1) \div (SECOND * SamplesPerBuffer)

FilePipelineNew(info) ==
    [pc |-> "create",
     media_info |-> info,
     video |-> [source |-> "none", feed |-> "none", num_buffers |-> Unlimited],
     audio |-> [source |-> "none", feed |-> "none", num_buffers |-> Unlimited]]

\* create_video_pipeline: the element decodebin is linked to, the element that
\* feeds the queue, and the number of buffers that element produces
create_video_pipeline(media_info) ==
    IF media_info.video
    THEN [source |-> "v_queue", feed |-> "decode", num_buffers |-> Unlimited]
    ELSE IF media_info.image
    THEN [source |-> "image", feed |-> "image",
          num_buffers |-> seconds(play_duration(media_info)) * Fps]
    ELSE [source |-> "none", feed |-> "video", num_buffers |-> Unlimited]

\* create_audio_pipeline
create_audio_pipeline(media_info) ==
    IF media_info.audio
    THEN [source |-> "a_queue", feed |-> "decode", num_buffers |-> Unlimited]
    ELSE [source |-> "none", feed |-> "audio",
          num_buffers |-> buffer_count(play_duration(media_info))]

FilePipelineInit == file_pipeline \in {FilePipelineNew(info) : info \in TimedMediaInfos}

\* create_pipeline up to the video branch
CreateVideoPipeline ==
    /\ file_pipeline.pc = "create"
    /\ file_pipeline' = [file_pipeline EXCEPT
                            !.pc = "video",
                            !.video = create_video_pipeline(file_pipeline.media_info)]
    /\ FilePipelineOnly

\* create_pipeline from the audio branch on
CreateAudioPipeline ==
    /\ file_pipeline.pc = "video"
    /\ file_pipeline' = [file_pipeline EXCEPT
                            !.pc = "created",
                            !.audio = create_audio_pipeline(file_pipeline.media_info)]
    /\ FilePipelineOnly

FilePipelineNext ==
    \/ CreateVideoPipeline
    \/ CreateAudioPipeline

(***************************************************************************)
(* The RTSP media factory and the control endpoint                         *)
(* (stream/media_factory.rs, stream/feeder.rs get_app_sources, api.rs)     *)
(***************************************************************************)
\* number of times the RTSP server asks the factory for a media element
MaxClients == 2
\* number of HTTP requests the endpoint receives
MaxRequests == 3

Methods == {"GET", "POST"}
Urls == {"/skip", "/skip?now", "/"}
NoRequest == [method |-> "-", url |-> "-"]
\* Option<AppSources>: None, or the pair of appsrcs built by one invocation
NoAppSources == 0

ServerNew ==
    [storage |-> NoAppSources,    \* AppSrcStorage
     invocations |-> 0,           \* calls of create_element so far
     app_sources |-> NoAppSources,\* what get_app_sources returned to the feeder
     request |-> NoRequest,       \* the request server.recv() returned
     requests |-> 0,              \* requests received so far
     command_chan |-> 0,          \* commands queued on the command channel
     command_rx |-> TRUE,         \* the command receiver exists
     received |-> 0,              \* commands the receiver has taken
     handled |-> <<>>]            \* requests handled, with the response given

\* MyMediaFactory::create_element: builds a new pair of appsrcs and, unless an
\* element could not be added or linked, stores the pair
create_element(self, failed) ==
    IF failed
    THEN [self EXCEPT !.invocations = @ + 1]
    ELSE [self EXCEPT !.invocations = @ + 1, !.storage = self.invocations + 1]

\* get_app_sources, once the storage holds something
get_app_sources(self) == [self EXCEPT !.app_sources = self.storage]

\* The test of handle_request with the method left out.
is_skip_all_methods(request) == request.url = "/skip"

\* handle_request: `*method == Method::Get && path == "/skip"`
is_skip(request) == request.method = "GET" /\ request.url = "/skip"

\* handle_request: Sender::send gives Err when the receiver is gone, and the
\* result is ignored; the response does not depend on the request
handle_request(self) ==
    LET sent == is_skip(self.request) /\ self.command_rx
    IN  [self EXCEPT
            !.command_chan = IF sent THEN @ + 1 ELSE @,
            !.handled = Append(@, [request |-> self.request,
                                    receiver |-> self.command_rx,
                                    status |-> 200, body |-> ""]),
            !.request = NoRequest]

ServerInit == server = ServerNew

CreateElement ==
    /\ server.invocations < MaxClients
    /\ \E failed \in BOOLEAN : server' = create_element(server, failed)
    /\ ServerOnly

GetAppSources ==
    /\ server.app_sources = NoAppSources
    /\ server.storage # NoAppSources
    /\ server' = get_app_sources(server)
    /\ ServerOnly

\* start_api_task: server.recv()
ApiRecv ==
    /\ server.request = NoRequest
    /\ server.requests < MaxRequests
    /\ \E method \in Methods, url \in Urls :
          server' = [server EXCEPT !.request = [method |-> method, url |-> url],
                                   !.requests = @ + 1]
    /\ ServerOnly

\* handle_request; Sender::send waits while the bounded channel is full
HandleRequest ==
    /\ server.request # NoRequest
    /\ (is_skip(server.request) /\ server.command_rx) => server.command_chan < MaxCommands
    /\ server' = handle_request(server)
    /\ ServerOnly

\* the consumer of the command channel takes a command
CommandRecv ==
    /\ server.command_rx
    /\ server.command_chan > 0
    /\ server' = [server EXCEPT !.command_chan = @ - 1, !.received = @ + 1]
    /\ ServerOnly

\* the consumer of the command channel ends; what is queued is dropped with it
CommandRxDrop ==
    /\ server.command_rx
    /\ server' = [server EXCEPT !.command_rx = FALSE]
    /\ ServerOnly

ServerNext ==
    \/ CreateElement
    \/ GetAppSources
    \/ ApiRecv
    \/ HandleRequest
    \/ CommandRecv
    \/ CommandRxDrop

(***************************************************************************)
(* The transcoder of streamer.rs: transcode_files and Pipeline             *)
(***************************************************************************)
\* number of sources transcode_files receives
MaxFiles == 2

\* the src pads decodebin may add for one file
DecoderSrcPads == {"video", "audio"}
BusMessages == {"Error", "Eos", "Other"}

StreamerNew ==
    [pc |-> "stopped",           \* position of transcode_files
     playing |-> FALSE,          \* Pipeline::playing
     eos_chan |-> 0,             \* notifications queued on eos_tx / eos_rx, bounded(1)
     pads |-> [p \in DecoderSrcPads |-> "none"],  \* none, streaming, eos
     bus |-> <<>>,               \* the pipeline bus
     files |-> 0]                \* sources received so far

\* SourcePipeline::stop: the pads of the decoder are unlinked and the decoder
\* and the source are set to Null, which ends their streaming threads.
source_stop(self) == [self EXCEPT !.pads = [p \in DecoderSrcPads |-> "none"]]

\* What one pass of `for msg in bus.iter_timed(..)` leaves on the bus: it takes
\* messages up to and including the first Error or Eos, where it breaks.
RECURSIVE bus_iter(_)
bus_iter(msgs) ==
    IF msgs = <<>> THEN <<>>
    ELSE IF Head(msgs) \in {"Error", "Eos"} THEN Tail(msgs)
    ELSE bus_iter(Tail(msgs))

StreamerInit == streamer = [StreamerNew EXCEPT !.pc = "recv"]

\* transcode_files: file_rx.recv() returns a source; stream_file begins.
TranscodeRecv ==
    /\ streamer.pc = "recv"
    /\ streamer.files < MaxFiles
    /\ streamer' = [streamer EXCEPT !.pc = "stop", !.files = @ + 1]
    /\ StreamerOnly

\* transcode_files: the file channel is disconnected; pipeline.stop()
TranscodeShutdown ==
    /\ streamer.pc = "recv"
    /\ streamer' = [source_stop(streamer) EXCEPT !.pc = "stopped", !.playing = FALSE]
    /\ StreamerOnly

\* stream_file: `if self.playing { self.source.stop(); }` and set_location
StreamFileStop ==
    /\ streamer.pc = "stop"
    /\ streamer' = [(IF streamer.playing THEN source_stop(streamer) ELSE streamer)
                       EXCEPT !.pc = "drain"]
    /\ StreamerOnly

\* stream_file without `for _ in self.eos_rx.drain() {}`
StreamFileDrain_Keep ==
    /\ streamer.pc = "drain"
    /\ streamer' = [streamer EXCEPT !.pc = "start"]
    /\ StreamerOnly

\* stream_file: `for _ in self.eos_rx.drain() {}`
StreamFileDrain ==
    /\ streamer.pc = "drain"
    /\ streamer' = [streamer EXCEPT !.pc = "start", !.eos_chan = 0]
    /\ StreamerOnly

\* stream_file: the pipeline is set to Playing if it is not (an error returns
\* to transcode_files), and source.start(); the decoder adds the pads of the
\* file, each with the EOS probe.
StreamFileStart ==
    /\ streamer.pc = "start"
    /\ \/ /\ ~streamer.playing
          /\ streamer' = [streamer EXCEPT !.pc = "recv"]
       \/ \E added \in SUBSET DecoderSrcPads :
             streamer' = [streamer EXCEPT
                             !.pc = "wait_eos",
                             !.playing = TRUE,
                             !.pads = [p \in DecoderSrcPads |->
                                          IF p \in added THEN "streaming" ELSE "none"]]
    /\ StreamerOnly

\* wait_for_eos: eos_rx.recv_timeout(100 ms); a notification returns from
\* wait_for_eos and from stream_file.
WaitEosRecv ==
    /\ streamer.pc = "wait_eos"
    /\ streamer' = IF streamer.eos_chan > 0
                   THEN [streamer EXCEPT !.pc = "recv", !.eos_chan = @ - 1]
                   ELSE [streamer EXCEPT !.pc = "wait_bus"]
    /\ StreamerOnly

\* wait_for_eos: `for msg in bus.iter_timed(100 ms)`; the `break` of the Error
\* and of the Eos arm leaves the `for`, and the `loop` goes round.
WaitEosBus ==
    /\ streamer.pc = "wait_bus"
    /\ streamer' = [streamer EXCEPT !.pc = "wait_eos", !.bus = bus_iter(streamer.bus)]
    /\ StreamerOnly

\* The EOS event of a decoder pad reaches the probe: eos_tx.try_send(()), and
\* the event is dropped.
PadEos(p) ==
    /\ streamer.pads[p] = "streaming"
    /\ streamer' = [streamer EXCEPT
                       !.pads[p] = "eos",
                       !.eos_chan = IF @ < 1 THEN @ + 1 ELSE @]
    /\ StreamerOnly

\* An element of the playing pipeline posts a message on the bus.
StreamerPost ==
    /\ streamer.pc \in {"wait_eos", "wait_bus"}
    /\ Len(streamer.bus) < MaxBus
    /\ \E msg \in BusMessages : streamer' = [streamer EXCEPT !.bus = Append(@, msg)]
    /\ StreamerOnly

StreamerNext ==
    \/ TranscodeRecv
    \/ TranscodeShutdown
    \/ StreamFileStop
    \/ StreamFileDrain
    \/ StreamFileStart
    \/ WaitEosRecv
    \/ WaitEosBus
    \/ \E p \in DecoderSrcPads : PadEos(p)
    \/ StreamerPost

(***************************************************************************)
(* RandomFiles::multi_if (random_files.rs)                                 *)
(***************************************************************************)
\* entries of the catalogs multi_if is called on
MaxCatalog == 4

CatalogPaths == {"a", "b", "c", "d"}

MultiIfOnly ==
    UNCHANGED <<switcherVars, producerVars, streamVars, input_bin, file_pipeline, server,
                streamer, recycle>>

\* The catalogs: up to MaxCatalog distinct paths in any order.  They are not
\* empty, so that ensure_files returns at its first test.
Catalogs ==
    UNION { { fs \in [1 .. k -> CatalogPaths] : \A i, j \in 1 .. k : fs[i] = fs[j] => i = j } :
            k \in 1 .. MaxCatalog }

\* The orders filtered.shuffle(&mut rng) may leave the indices in.
Shuffles(indices) ==
    { f \in [1 .. Cardinality(indices) -> indices] :
        \A i, j \in 1 .. Cardinality(indices) : f[i] = f[j] => i = j }

\* A call of multi_if on the catalog fs with a predicate that accepts the
\* paths of the set accepts; catalog keeps what files was at the call.
MultiNew(fs, accepts) ==
    [pc |-> "filter", catalog |-> fs, accepts |-> accepts, files |-> fs,
     filtered |-> <<>>, n |-> 0, items |-> <<>>]

MultiIfInit == \E fs \in Catalogs, accepts \in SUBSET CatalogPaths : multi = MultiNew(fs, accepts)

\* multi_if up to the loop: the indices the predicate accepts, the early
\* return, the shuffle and n = rng.random_range(1..filtered.len()), which
\* panics on an empty range.  Indices count from 1 here.
MultiIfFilter ==
    /\ multi.pc = "filter"
    /\ LET filtered == {index \in 1 .. Len(multi.files) : multi.files[index] \in multi.accepts}
       IN  IF filtered = {}
           THEN multi' = [multi EXCEPT !.pc = "returned"]
           ELSE \E shuffled \in Shuffles(filtered) :
                  IF 1 .. Len(shuffled) - 1 = {}
                  THEN multi' = [multi EXCEPT !.pc = "panicked", !.filtered = shuffled]
                  ELSE \E n \in 1 .. Len(shuffled) - 1 :
                          multi' = [multi EXCEPT !.pc = "take", !.filtered = shuffled, !.n = n]
    /\ MultiIfOnly

\* One round of `for index in filtered.into_iter().take(n)`: files.remove(index),
\* which panics if index is out of bounds, and items.push(path).
MultiIfRemove ==
    /\ multi.pc = "take"
    /\ Len(multi.items) < multi.n
    /\ LET index == multi.filtered[Len(multi.items) + 1]
       IN  IF index > Len(multi.files)
           THEN multi' = [multi EXCEPT !.pc = "panicked"]
           ELSE multi' = [multi EXCEPT !.files = Remove(@, index),
                                       !.items = Append(@, multi.files[index])]
    /\ MultiIfOnly

\* The loop is done: items is returned.
MultiIfReturn ==
    /\ multi.pc = "take"
    /\ Len(multi.items) = multi.n
    /\ multi' = [multi EXCEPT !.pc = "returned"]
    /\ MultiIfOnly

MultiIfNext ==
    \/ MultiIfFilter
    \/ MultiIfRemove
    \/ MultiIfReturn

(***************************************************************************)
(* Specifications                                                          *)
(***************************************************************************)
\* The task that is not the one feeding the appsrcs.
FeederIdle ==
    /\ feeder_pc = "idle"
    /\ feeder_path = NoPath
    /\ feeder_discovery = "none"
    /\ feeder_detect = "none"
    /\ feeder_info = MediaInfoDefault
    /\ feeder_type = "none"
    /\ feeder_pipeline = "none"
    /\ abort_chan = 0
    /\ skip_thread_pc = "recv"
    /\ timer_armed = FALSE
    /\ timers_sending = 0
    /\ appsrc_eos = FALSE
    /\ abort_from = [token |-> "none", late |-> 0]

QueueIdle ==
    /\ queue_pc = "idle"
    /\ queue_item = NoPath
    /\ samples = [s \in Streams |-> 0]
    /\ push_pc = [s \in Streams |-> "idle"]
    /\ push_data = [s \in Streams |-> FALSE]
    /\ abort = FALSE
    /\ abort_of = "none"

StreamIdle ==
    /\ events = <<>>
    /\ task_commands = 0
    /\ FeederIdle
    /\ QueueIdle

\* A component at rest while another one is checked.
ProducerIdle ==
    /\ root_dirs = << <<>> >>
    /\ probe = [p \in Paths |-> "error"]
    /\ files = <<>>
    /\ file_notify = [open |-> FALSE, queued |-> 0]
    /\ walk_pc = "idle"
    /\ workers = [i \in Roots |-> [pc |-> "unspawned", pos |-> 0]]
    /\ finder_pc = "stopped"
    /\ info_map = [p \in Paths |-> "none"]
    /\ selected = NoPath
    /\ source_chan = <<>>
    /\ receiver_alive = FALSE
    /\ epoch_emitted = <<>>
    /\ caller = "finder"
    /\ epoch = 0

SwitcherIdle ==
    /\ input_bins = [i \in Slots |-> [state |-> "Null", pre_rolled |-> FALSE]]
    /\ active_bin = 0
    /\ video_input_selector = [active_pad |-> 0, state |-> "Null"]
    /\ audio_input_selector = [active_pad |-> 0, state |-> "Null"]
    /\ commands = <<>>
    /\ bus = <<>>
    /\ play_pc = "aborted"
    /\ skip_window = [stale |-> 0, transitions |-> 0]
    /\ play_history = [item_ended |-> FALSE, rebind_failed |-> FALSE]

\* A bin nobody uses.
InputBinIdle == input_bin = InputBinNew

\* No pipeline is being built, nobody connects and nobody sends a request.
FilePipelineIdle ==
    file_pipeline = FilePipelineNew([duration |-> {}, image |-> FALSE,
                                     video |-> FALSE, audio |-> FALSE])
ServerIdle == server = ServerNew
StreamerIdle == streamer = StreamerNew
\* No file of a slot has done anything.
RecycleIdle ==
    recycle = [stale |-> <<>>, reached |-> [i \in Slots |-> FALSE], rebound |-> NoBin,
               was_active |-> FALSE]
MultiIfIdle == multi = MultiNew(<<>>, {})
RestIdle == FilePipelineIdle /\ ServerIdle /\ StreamerIdle /\ RecycleIdle /\ MultiIfIdle

InitSwitcher == SwitcherInit /\ ProducerIdle /\ StreamIdle /\ InputBinIdle /\ RestIdle
SpecSwitcher == InitSwitcher /\ [][SwitcherNext]_vars

\* play with no command sent, the files of its slots completing or failing.
InitRecycle == InitSwitcher
SpecRecycle == InitRecycle /\ [][RecycleNext]_vars

InitProducer == ProducerInit /\ SwitcherIdle /\ StreamIdle /\ InputBinIdle /\ RestIdle
SpecProducer == InitProducer /\ [][ProducerNext]_vars

\* The output appsrcs are fed by file_feeder_task or by stream_queue_task.
InitStream ==
    /\ SwitcherIdle
    /\ ProducerIdle
    /\ InputBinIdle
    /\ RestIdle
    /\ \/ FeederInit /\ QueueIdle
       \/ QueueInit /\ FeederIdle
StreamNext == FeederNext \/ QueueNext
SpecStream == InitStream /\ [][StreamNext]_vars

InitInputBin == InputBinInit /\ SwitcherIdle /\ ProducerIdle /\ StreamIdle /\ RestIdle
SpecInputBin == InitInputBin /\ [][InputBinNext]_vars

InitFilePipeline ==
    /\ FilePipelineInit
    /\ SwitcherIdle /\ ProducerIdle /\ StreamIdle /\ InputBinIdle /\ ServerIdle /\ StreamerIdle
    /\ RecycleIdle /\ MultiIfIdle
SpecFilePipeline == InitFilePipeline /\ [][FilePipelineNext]_vars

InitServer ==
    /\ ServerInit
    /\ SwitcherIdle /\ ProducerIdle /\ StreamIdle /\ InputBinIdle /\ FilePipelineIdle
    /\ StreamerIdle /\ RecycleIdle /\ MultiIfIdle
SpecServer == InitServer /\ [][ServerNext]_vars

InitStreamer ==
    /\ StreamerInit
    /\ SwitcherIdle /\ ProducerIdle /\ StreamIdle /\ InputBinIdle /\ FilePipelineIdle
    /\ ServerIdle /\ RecycleIdle /\ MultiIfIdle
SpecStreamer == InitStreamer /\ [][StreamerNext]_vars

InitMultiIf ==
    /\ MultiIfInit
    /\ SwitcherIdle /\ ProducerIdle /\ StreamIdle /\ InputBinIdle /\ FilePipelineIdle
    /\ ServerIdle /\ StreamerIdle /\ RecycleIdle
SpecMultiIf == InitMultiIf /\ [][MultiIfNext]_vars

\* The threads of stream_queue_task are scheduled fairly: the task itself, its
\* command thread and the two push threads.  Nothing is assumed of the control
\* endpoint, of the appsrc callbacks and of the queue of items.
FairSpecQueue ==
    /\ SpecStream
    /\ WF_vars(QueueSpawnVideo) /\ WF_vars(QueueSpawnAudio) /\ WF_vars(QueueFlush)
    /\ WF_vars(QueueEnded) /\ WF_vars(QueueReset) /\ WF_vars(QueueJoin)
    /\ WF_vars(QueueSkip)
    /\ \A s \in Streams :
          WF_vars(PushCheckAbort(s)) /\ WF_vars(PushCheckData(s)) /\ WF_vars(PushSample(s))

\* The threads of the producer are scheduled fairly and the consumer receives
\* what is sent; the consumer is free to drop its receiver or not.
FairSpecProducer ==
    /\ SpecProducer
    /\ WF_vars(EnsureFilesEmpty) /\ WF_vars(EnsureFilesWalk) /\ WF_vars(EnsureFilesRecv)
    /\ WF_vars(NextIf) /\ WF_vars(FinderSend)
    /\ WF_vars(IterNext) /\ WF_vars(IterCallAgain)
    /\ WF_vars(ReceiveSource)
    /\ WF_vars(WalkSpawn) /\ WF_vars(WalkExit)
    /\ WF_vars(\E i \in Roots : WalkOnePush(i))
    /\ WF_vars(\E i \in Roots : WalkNotify(i))

(***************************************************************************)
(* Properties of the switcher core                                         *)
(***************************************************************************)

C4_SkipsCollapse == skip_window.transitions <= 1

\* The first slot after active_bin, in cyclic order, that is pre-rolled and is
\* not the active slot; the active slot if there is none.
FirstPreRolledSibling(self) ==
    LET k == PreRollCount + 1
        ds == {d \in 1 .. k - 1 : self.input_bins[(self.active_bin + d) % k].pre_rolled}
    IN  IF ds = {} THEN self.active_bin
        ELSE (self.active_bin + (CHOOSE d \in ds : \A e \in ds : d <= e)) % k

\* C5: switch_next selects the first other pre-rolled slot in cyclic order after
\* active_bin, and the active slot itself if no other slot is pre-rolled.
C5_SwitchNextChoice ==
    play_pc \in {"recv", "bus"} => switch_next_index(Self) = FirstPreRolledSibling(Self)

(***************************************************************************)
(* Properties of the random file producer                                  *)
(***************************************************************************)

\* C2: within one epoch (the calls served between two consecutive restarts of
\* the walker) no path is returned twice by next_if.
C2_NoRepeatInEpoch ==
    \A i, j \in 1 .. Len(epoch_emitted) :
        i # j => epoch_emitted[i] # epoch_emitted[j]

\* The roots hold a file that the probe finds playable.
HasPlayable ==
    \E i \in Roots : \E k \in 1 .. Len(root_dirs[i]) : probe[root_dirs[i][k]] = "playable"

\* C3: if the roots hold at least one playable file and the receiver keeps
\* receiving, the finder thread sends Sources infinitely often, whether or not
\* the roots also hold files that the probe rejects.
C3_YieldsForever ==
    (HasPlayable /\ caller = "finder" /\ []receiver_alive) => []<>(finder_pc = "send")

(***************************************************************************)
(* Properties of the feeder tasks and of the probe                         *)
(***************************************************************************)

\* The emitted events alternate: Playing(p1), Ended(p1), Playing(p2), ...
EventsAlternate ==
    \A i \in 1 .. Len(events) :
        IF i % 2 = 1
        THEN events[i].kind = "Playing"
        ELSE events[i].kind = "Ended" /\ events[i].path = events[i - 1].path

\* The feeder gives up a path before playback: detect failed, the type is
\* Unknown or the pipeline could not be built.
SkippedBeforePlayback ==
    /\ feeder_pc \in {"detect", "build"}
    /\ feeder_pc' = "recv"

\* C6: in file_feeder_task and in stream_queue_task the emitted events are a
\* strict alternation Playing(p1), Ended(p1), Playing(p2), Ended(p2), ..., and a
\* path that is skipped before playback produces no event.
C6_EventsAlternate ==
    /\ []EventsAlternate
    /\ [][SkippedBeforePlayback => events' = events]_vars

\* C6 witness: two items of different paths have been played to their end.
C6_Witness ==
    /\ Len(events) = 4
    /\ events[1].path # events[3].path
    /\ events[4].kind = "Ended"

\* C7: in stream_queue_task, once Ended(path) has been emitted for the item,
\* both push_buffers loops of the item have stopped.
C7_EndedAfterLastSample ==
    queue_pc \in {"reset", "join"} => \A s \in Streams : push_pc[s] = "done"

\* C8: media_type derives the kind from video, audio and image as the data
\* model states: video and audio gives VideoWithAudio, video alone
\* VideoWithoutAudio, an image with neither video nor audio Image, nothing
\* Unknown, and audio without video is not Image.
C8_MediaTypeAsDataModel ==
    feeder_type # "none" =>
        /\ feeder_info.video /\ feeder_info.audio => feeder_type = "VideoWithAudio"
        /\ feeder_info.video /\ ~feeder_info.audio => feeder_type = "VideoWithoutAudio"
        /\ feeder_info.image /\ ~feeder_info.video /\ ~feeder_info.audio =>
              feeder_type = "Image"
        /\ is_empty(feeder_info) => feeder_type = "Unknown"
        /\ feeder_info.audio /\ ~feeder_info.video => feeder_type # "Image"

\* C9: a path whose discovery result is not Ok is never played by
\* file_feeder_task: no pipeline is started for it and no Playing is emitted.
C9_FailedProbeNotPlayed ==
    feeder_pc \in {"start", "poll", "bus", "end"} => feeder_discovery = "Ok"

\* C10: MediaInfo::detect returns an error whenever the discovery result is
\* not Ok, and returns Ok only for a discovery whose result is Ok.
C10_DetectErrOnFailure ==
    /\ feeder_detect = "Ok" => feeder_discovery = "Ok"
    /\ feeder_discovery \notin {"none", "Ok"} => feeder_detect = "Err"

(***************************************************************************)
(* Properties of the producer, continued                                   *)
(***************************************************************************)

\* C11: every Source the finder thread sends carries a non-empty MediaInfo that
\* a successful probe of the same path produced, and the lookup of the cached
\* info of the selected path never fails (the finder never panics), in every
\* epoch.
C11_SourceCarriesProbedInfo ==
    /\ \A k \in 1 .. Len(source_chan) :
          /\ source_chan[k].media_info = "playable"
          /\ probe[source_chan[k].path] = "playable"
    /\ finder_pc = "send" => info_map[selected] # "none"
    /\ caller = "finder" => finder_pc # "panicked"

\* C11 witness: a Source is in the channel and the next one, selected in a
\* later epoch from the cache, is about to be sent.
C11_Witness ==
    /\ caller = "finder"
    /\ epoch = MaxEpochs
    /\ source_chan # <<>>
    /\ finder_pc = "send"
    /\ \E p \in Paths : info_map[p] = "empty"

\* C15: Iterator::next never draws an index from an empty catalog.
C15_NextNeverDrawsFromEmpty ==
    /\ finder_pc = "next" => files # <<>>
    /\ caller = "iter" => finder_pc # "panicked"

\* C16: when next_if finds no entry to return and the walk of the epoch is
\* complete, the catalog is empty afterwards: the entries the predicate
\* rejected have been discarded.
C16_RejectedDiscarded ==
    [][(finder_pc = "next_if" /\ finder_pc' = "ensure_empty" /\ Disconnected)
          => files' = <<>>]_vars

\* C17: with a single root that holds exactly one file, which is playable,
\* RandomFiles returns that file infinitely often, through next_if and through
\* Iterator::next.
C17_SingleFileForever ==
    (root_dirs = << <<"a">> >> /\ probe["a"] = "playable" /\ []receiver_alive)
        => []<>(selected = "a")

\* C18: if the roots hold no playable file, the finder thread never sends a
\* Source and neither terminates nor panics.
C18_NoPlayableStaysUp ==
    (caller = "finder" /\ ~HasPlayable /\ receiver_alive) =>
        /\ source_chan = <<>>
        /\ finder_pc \notin {"send", "stopped", "panicked"}

\* C18 witness: a catalog that holds only a file whose probe came out empty,
\* after next_if has rejected it.
C18_Witness ==
    /\ caller = "finder"
    /\ ~HasPlayable
    /\ receiver_alive
    /\ files # <<>>
    /\ \A k \in 1 .. Len(files) : info_map[files[k]] = "empty"
    /\ finder_pc = "ensure_empty"

(***************************************************************************)
(* Properties of the input assembly                                        *)
(***************************************************************************)

\* C12: for every image bound to the bin, also after the bin was recycled with
\* set_uri, once a frozen-frame buffer with PTS greater than the hold duration
\* has passed the output of imagefreeze, EOS has been pushed on the video path
\* and on the audio path.
C12_ImageHoldEnds ==
    input_bin.image_freeze.out = "late" =>
        input_bin.video_convert.eos /\ input_bin.audio_convert.eos

\* The decoder pads of a kind added since the last set_uri.
AddedPads(kind) == input_bin.uri_decode.pads \cap kind

\* C20: after set_uri and any sequence of pad-added events for the file, the
\* sink of video_convert is fed by a decoded video pad, directly or through
\* imagefreeze, if a video pad was added and by the black test source
\* otherwise; the sink of audio_convert is fed by a decoded audio pad if an
\* audio pad was added and by the silent test source otherwise; also after each
\* later set_uri.
C20_OneFeederPerPath ==
    (input_bin.uri_decode.uri > 0 /\ input_bin.uri_decode.streams = "pending") =>
        /\ IF AddedPads(VideoPads) = {}
           THEN input_bin.video_convert.sink_peer = "video_black"
           ELSE \/ input_bin.video_convert.sink_peer \in AddedPads(VideoPads)
                \/ /\ input_bin.video_convert.sink_peer = "image_freeze"
                   /\ input_bin.image_freeze.sink_peer \in AddedPads(VideoPads)
        /\ IF AddedPads(AudioPads) = {}
           THEN input_bin.audio_convert.sink_peer = "audio_silent"
           ELSE input_bin.audio_convert.sink_peer \in AddedPads(AudioPads)

\* C20 witness: the bin, recycled with a second set_uri, holds a file with video
\* and no audio: the decoded video feeds video_convert, the silent source
\* audio_convert.
C20_Witness ==
    /\ input_bin.uri_decode.uri = MaxUris
    /\ input_bin.uri_decode.pads = {"video_0"}
    /\ input_bin.video_convert.sink_peer = "video_0"
    /\ input_bin.audio_convert.sink_peer = "audio_silent"

(***************************************************************************)
(* Properties of the switcher, continued                                   *)
(***************************************************************************)

\* C13: while play runs and no item has ended yet (no Skip, no Eos or Error of
\* the active slot), slot 0 is the active slot and no other slot has been set
\* to Playing, in whatever order the slots report async-done.
C13_FirstItemIsSlotZero ==
    (play_pc \in {"recv", "bus"} /\ ~play_history.item_ended) =>
        /\ active_bin = 0
        /\ \A i \in Slots \ {0} : input_bins[i].state # "Playing"

\* C14: an error of switch_bin_uri does not end play.
C14_RebindFailureNotFatal ==
    play_history.rebind_failed => play_pc # "failed"

(***************************************************************************)
(* Properties of file_feeder_task, continued                               *)
(***************************************************************************)

\* C19: file_feeder_task sends end-of-stream to the output appsrcs only when
\* the file channel is closed; the end of an item (Eos, Error, Skip, image
\* timeout) sends none, and the feeder goes on to receive the next path.
C19_EosOnlyAtShutdown ==
    /\ [](appsrc_eos => feeder_pc = "shutdown")
    /\ [][(feeder_pc = "end" /\ feeder_pc' # "end")
             => (feeder_pc' = "recv" /\ ~appsrc_eos')]_vars

\* C19 witness: an item has ended and the feeder has received the next path.
C19_Witness ==
    /\ events # <<>>
    /\ events[Len(events)].kind = "Ended"
    /\ feeder_pc = "detect"
    /\ ~appsrc_eos

(***************************************************************************)
(* Properties of the transcoding pipeline                                  *)
(***************************************************************************)
\* The hold of a file: 5 seconds when no duration is reported or the reported
\* duration is zero, the reported duration otherwise.
ImageHold(info) ==
    IF info.duration = {} \/ info.duration = {0} THEN DefaultHoldSeconds * SECOND
    ELSE CHOOSE d \in info.duration : TRUE

\* C21: play_duration returns the default hold of 5 seconds when the duration
\* is absent or zero and the reported duration otherwise, so the imagefreeze of
\* an image and the silent audio source are told to produce that many buffers.
C21_PlayDurationDefault ==
    /\ (file_pipeline.pc # "create" /\ file_pipeline.video.feed = "image") =>
          file_pipeline.video.num_buffers
             = seconds(ImageHold(file_pipeline.media_info)) * Fps
    /\ (file_pipeline.pc = "created" /\ file_pipeline.audio.feed = "audio") =>
          file_pipeline.audio.num_buffers
             = buffer_count(ImageHold(file_pipeline.media_info))

(***************************************************************************)
(* Properties of the control endpoint and of the media factory             *)
(***************************************************************************)
\* the commands handle_request has put on the command channel
Enqueued == server.command_chan + server.received
SkipsHandled ==
    {i \in DOMAIN server.handled :
        /\ server.handled[i].request = [method |-> "GET", url |-> "/skip"]
        /\ server.handled[i].receiver}

\* C22: handle_request enqueues exactly one Skip for a GET of exactly /skip
\* (while the command receiver exists) and nothing for any other request, and
\* it answers every request it handles with an empty 200 response, also when
\* the command receiver is gone.
C22_SkipIffGetSkip ==
    /\ Enqueued = Cardinality(SkipsHandled)
    /\ \A i \in DOMAIN server.handled :
          server.handled[i].status = 200 /\ server.handled[i].body = ""
    /\ Len(server.handled) + (IF server.request = NoRequest THEN 0 ELSE 1)
          = server.requests

\* C22 witness: a GET /skip and another request were handled with the receiver
\* alive, and a GET /skip was handled after the receiver was gone.
C22_Witness ==
    /\ Cardinality(SkipsHandled) = 1
    /\ \E i \in DOMAIN server.handled : server.handled[i].request.url # "/skip"
    /\ \E i \in DOMAIN server.handled :
          /\ server.handled[i].request = [method |-> "GET", url |-> "/skip"]
          /\ ~server.handled[i].receiver

\* C23: once the storage holds AppSources it is never overwritten, so the
\* handles get_app_sources returned are the ones in the storage.
C23_StorageWrittenOnce ==
    /\ [](server.app_sources # NoAppSources => server.app_sources = server.storage)
    /\ [][server.storage # NoAppSources => server.storage' = server.storage]_vars

(***************************************************************************)
(* Properties of the switcher, continued                                   *)
(***************************************************************************)
\* play has taken the message at the head of the bus.
Handles(msg) == play_pc = "bus" /\ bus # <<>> /\ Head(bus) = msg /\ bus' = Tail(bus)

\* C24: an Error message whose source is in no input slot ends play.
C24_SharedErrorFatal ==
    [][Handles([type |-> "Error", src |-> NoBin]) => play_pc' \in {"failed", "aborted"}]_vars

C27_FinderStopsAfterDrop ==
    (caller = "finder") =>
        [](~receiver_alive => <>(finder_pc \in {"stopped", "panicked"}))

(***************************************************************************)
(* Properties of stream_queue_task: the end of an item and Skip            *)
(***************************************************************************)
\* C28: once no sample of the current item is left to come on either channel,
\* both push loops return and the task is back at queue_rx.recv().
C28_ItemEndsWhenDrained ==
    []((queue_pc \in ItemPcs /\ \A s \in Streams : samples[s] = 0)
          => <>(queue_pc = "recv"))

\* C29: the abort flag set by a Skip that was received while an item is being
\* pushed stays set until both push loops of that item have returned.
C29_SkipNotLost ==
    [][(abort /\ abort_of = "item" /\ \E s \in Streams : push_pc[s] # "done")
          => abort']_vars

\* C30: a push loop never returns on an abort flag that was set by a Skip
\* received during an earlier item.
C30_SkipHasOneEffect ==
    [][\A s \in Streams :
          (push_pc[s] = "check_abort" /\ push_pc'[s] = "done") => abort_of # "previous"]_vars

(***************************************************************************)
(* Properties of the transcoder of streamer.rs                             *)
(***************************************************************************)
\* C31: wait_for_eos returns when it takes an Error or an Eos message from the
\* bus, so transcode_files goes on to receive the next file.
C31_BusErrorEndsItem ==
    [][(/\ streamer.pc = "wait_bus"
        /\ streamer'.pc # "wait_bus"
        /\ \E i \in DOMAIN streamer.bus : streamer.bus[i] \in {"Error", "Eos"})
          => streamer'.pc = "recv"]_vars

\* C32: while wait_for_eos waits, a notification on the EOS channel comes from
\* a pad of the file being played: none is left over from the file before.
C32_NoLeftoverEos ==
    (streamer.pc \in {"wait_eos", "wait_bus"} /\ streamer.eos_chan > 0) =>
        \E p \in DecoderSrcPads : streamer.pads[p] = "eos"

\* C32 witness: the second pad of a file sent its EOS after wait_for_eos had
\* returned on the first, and the next file is about to be started.
C32_Witness ==
    /\ streamer.pc = "drain"
    /\ streamer.files = 2
    /\ streamer.eos_chan = 1

(***************************************************************************)
(* Properties of InputBin: the freeze element                              *)
(***************************************************************************)
\* C33: imagefreeze is fed by a decoded video pad only if the file is a still
\* image; the video pad of a file that is not a still is linked to the video
\* path directly, whatever the duration query gave when the pad was added.
C33_FreezeOnlyForStills ==
    /\ input_bin.image_freeze.sink_peer \in VideoPads => input_bin.uri_decode.still
    /\ (~input_bin.uri_decode.still /\ AddedPads(VideoPads) # {}) =>
          input_bin.video_convert.sink_peer \in VideoPads

\* play is about to pass a message of the given type to handle_message, and the
\* message is left over from a file its slot no longer holds.
HandlesLeftOver(type) ==
    /\ play_pc = "bus"
    /\ bus # <<>> /\ bus' = Tail(bus)
    /\ Head(bus).type = type
    /\ recycle.stale # <<>> /\ Head(recycle.stale)

\* C34: one failed file costs one path.  An Error message that is left over
\* from the former file of a slot (a second Error of the file that was already
\* replaced) does not rebind the slot again.
C34_LeftOverErrorNoRebind ==
    [][HandlesLeftOver("Error") => recycle'.rebound = NoBin]_vars

\* C35: an Error from a slot that is not the active one leaves active_bin, both
\* selectors and every other slot as they are; the failing slot alone is
\* rebound: its flag is reset and, unless the rebinding fails, it is paused to
\* pre-roll the next path.
C35_ErrorOfOtherSlot ==
    [][\A i \in Slots \ {active_bin} :
          Handles([type |-> "Error", src |-> i]) =>
             /\ active_bin' = active_bin
             /\ video_input_selector' = video_input_selector
             /\ audio_input_selector' = audio_input_selector
             /\ \A j \in Slots \ {i} : input_bins'[j] = input_bins[j]
             /\ ~input_bins'[i].pre_rolled
             /\ play_pc' = "bus" =>
                   /\ input_bins'[i].state = "Paused"
                   /\ recycle'.rebound = i
                   /\ ~recycle'.reached[i]]_vars

\* C35 witness: the message handled last was an Error of a slot that was not
\* the active one; the slot is rebound and the active slot, pre-rolled, plays on.
C35_Witness ==
    /\ play_pc = "bus"
    /\ recycle.rebound \in Slots \ {active_bin}
    /\ ~recycle.was_active
    /\ input_bins[recycle.rebound] = [state |-> "Paused", pre_rolled |-> FALSE]
    /\ input_bins[active_bin] = [state |-> "Playing", pre_rolled |-> TRUE]

C36_TimerEndsOwnImage ==
    [][(feeder_pc = "poll" /\ abort_chan > 0 /\ abort_chan' < abort_chan)
          => abort_from.token # "late"]_vars

\* ensure_files is about to call walk.
StartsWalk == finder_pc = "ensure_rx" /\ (~file_notify.open \/ Disconnected)

\* C37: walk passes do not overlap.  When ensure_files starts a walk the
\* catalog is empty and no worker of the walk before is still at work, so what
\* the catalog holds is of one pass.
C37_WalksDoNotOverlap ==
    [][(StartsWalk /\ finder_pc' = "ensure_recv") =>
          /\ files = <<>>
          /\ \A i \in Roots : workers[i].pc \in {"unspawned", "done"}]_vars

\* The paths of a sequence, as a set.
Range(q) == {q[i] : i \in DOMAIN q}

\* q without its entries that are in the set gone, in the order of q.
RECURSIVE Without(_, _)
Without(q, gone) ==
    IF q = <<>> THEN <<>>
    ELSE IF Head(q) \in gone THEN Without(Tail(q), gone)
    ELSE <<Head(q)>> \o Without(Tail(q), gone)

\* C39: when the predicate accepts at least one entry of the catalog, multi_if
\* does not panic, and what it returns are distinct paths the predicate
\* accepted; exactly these are gone from the catalog, every other entry stays.
C39_MultiIfTakesAccepted ==
    (Range(multi.catalog) \cap multi.accepts # {}) =>
        /\ multi.pc # "panicked"
        /\ multi.pc = "returned" =>
              /\ \A i, j \in DOMAIN multi.items : multi.items[i] = multi.items[j] => i = j
              /\ Range(multi.items) \subseteq multi.accepts
              /\ multi.files = Without(multi.catalog, Range(multi.items))


====
